---- MODULE Spec2Model ----
(***************************************************************************)
(* Purchase-order management API (Fastify routes over a relational store). *)
(* The store's tables are the state; every route handler is a sequence of  *)
(* atomic steps, one per awaited SQL statement, so that two requests may   *)
(* interleave between the statements of a handler.                         *)
(***************************************************************************)
EXTENDS Integers, Sequences, FiniteSets, TLC

\* ------------------------------------------------------------------------
\* Bounds of the model
\* ------------------------------------------------------------------------
MaxPO == 2
\* number of purchase-order rows the store may hold
MaxReq == 2
\* number of requests that may be in flight at once
MaxAmount == 2
\* largest total_amount a create request carries
MaxItems == 1
\* largest number of line items a create request carries
MaxRole == 7
\* number of role rows the store may hold (three are seeded)
MaxPerm == 49
\* number of permission rows the store may hold (33 are seeded)
MaxUser == 3
\* number of user rows the store may hold (one is seeded)
MaxSupplier == 3
\* number of supplier rows the store may hold (two are seeded)
MaxCents == 5
\* largest amount and largest spending limit given to canCreatePurchaseOrder

\* ------------------------------------------------------------------------
\* Values
\* ------------------------------------------------------------------------
Null == [null |-> TRUE]
NoRow == [norow |-> TRUE]

POIds == 1..MaxPO
PoNumbers == 1..MaxPO
Reqs == 1..MaxReq
Amounts == 0..MaxAmount
ItemCounts == 1..MaxItems

UserIds == 1..MaxUser
UserRoles == {"basic", "manager", "admin"}
SupplierIds == 1..MaxSupplier

Statuses == {"draft", "pending", "approved", "ordered", "received", "cancelled"}

RoleIds == 1..MaxRole
PermIds == 1..MaxPerm

\* The divisions seedDatabase writes; no route writes a division.  The name of a
\* division stands for its id.
SeedDivisions == {"Engineering", "Marketing", "Operations", "Finance"}

\* users, suppliers, purchase_orders, roles, permissions: one row per id, or
\* NoRow.  purchase_order_items: the number of item rows of each order.
\* role_permissions and user_roles: per (role, permission) and (user, role)
\* pair "none", "live" (deleted_at IS NULL) or "deleted"; each table has a
\* UNIQUE constraint on the pair.  tokens: the tokens login and register have
\* issued.  reqs: the request of each connection.
VARIABLES users, suppliers, purchase_orders, purchase_order_items,
          roles, permissions, role_permissions, user_roles, tokens, reqs

poTables == <<suppliers, purchase_orders, purchase_order_items>>
rbacTables == <<roles, permissions, role_permissions, user_roles>>

vars == <<users, poTables, rbacTables, tokens, reqs>>

\* ------------------------------------------------------------------------
\* lib/auth.ts
\* ------------------------------------------------------------------------

\* jwt.sign over the payload {sub, id, email, role, division_id}: the payload
\* carries no spending_limit_cents.  sig_ok is the signature/expiry check.
generateToken(user) ==
  [id |-> user.id, role |-> user.role, division_id |-> user.division_id,
   sig_ok |-> TRUE]

\* jwt.verify: the payload, or null when verification throws.
verifyToken(token) ==
  IF token = Null THEN Null
  ELSE IF token.sig_ok
  THEN [id |-> token.id, role |-> token.role, division_id |-> token.division_id]
  ELSE Null

extractUserFromRequest(hdr) ==
  IF hdr.scheme # "Bearer" THEN Null
  ELSE LET decoded == verifyToken(hdr.token)
       IN IF decoded = Null THEN Null
          ELSE [id |-> decoded.id, role |-> decoded.role,
                division_id |-> decoded.division_id,
                spending_limit_cents |-> 0]

\* requireAuth throws a plain Error (no statusCode) when there is no user.
requireAuth(hdr) ==
  LET user == extractUserFromRequest(hdr)
  IN IF user = Null
     THEN [threw |-> TRUE, user |-> Null,
           message |-> "Unauthorized: Valid JWT token required"]
     ELSE [threw |-> FALSE, user |-> user, message |-> ""]

\* A hierarchy-based gate: manager passes wherever admin is listed.
requireRole_Hierarchy(user, allowedRoles) ==
  IF ~(user.role \in allowedRoles
       \/ (user.role = "manager" /\ "admin" \in allowedRoles))
  THEN [threw |-> TRUE, message |-> "Forbidden: Requires one of roles",
        roles |-> allowedRoles]
  ELSE [threw |-> FALSE, message |-> "", roles |-> {}]

\* requireRole throws a plain Error naming the allowed roles.
requireRole(user, allowedRoles) ==
  IF ~(user.role \in allowedRoles)
  THEN [threw |-> TRUE, message |-> "Forbidden: Requires one of roles",
        roles |-> allowedRoles]
  ELSE [threw |-> FALSE, message |-> "", roles |-> {}]

\* bcrypt.hash and bcrypt.compare: a hash is matched by the password it was
\* made from and by no other.
hashPassword(password) == [bcrypt |-> password]

comparePassword(password, hash) == hash = hashPassword(password)

\* Spending-limit gate; no route calls it.
\* The comparison made strict.
canCreatePurchaseOrder_Strict(user, totalCents) ==
  IF user.role = "admin" THEN TRUE
  ELSE totalCents < user.spending_limit_cents

canCreatePurchaseOrder(user, totalCents) ==
  IF user.role = "admin" THEN TRUE
  ELSE totalCents <= user.spending_limit_cents

\* ------------------------------------------------------------------------
\* Requests
\* ------------------------------------------------------------------------
\* Authorization headers a request may carry: none, a non-Bearer scheme, a
\* Bearer token that fails verification, and the tokens issued so far.
Bearer(token) == [scheme |-> "Bearer", token |-> token]

NoHeader == [scheme |-> "none", token |-> Null]

ForgedToken ==
  [id |-> 1, role |-> "admin", division_id |-> "Engineering", sig_ok |-> FALSE]

Headers ==
  {NoHeader, [scheme |-> "Basic", token |-> Null], Bearer(ForgedToken)}
  \cup {Bearer(t) : t \in tokens}

\* The headers that carry a token issued to a user of the role.
HeadersOf(role) == {Bearer(t) : t \in {t \in tokens : t.role = role}}

Reply(code, error) == [code |-> code, error |-> error, roles |-> {}]

Idle == [op |-> "idle", pc |-> "idle"]
NoBody == [nobody |-> TRUE]

\* A request as its handler sees it: the fields are filled in as the handler
\* reads them.
Request(op, hdr) ==
  [op |-> op, pc |-> "begin", hdr |-> hdr, user |-> Null, id |-> 0,
   status |-> "", body |-> NoBody, current_status |-> "", raced |-> FALSE,
   newPO |-> 0, existing |-> Null, inserted |-> 0]

\* A completed request: what the handler read, and the reply it sent.
\* passed: the handler got past requireAuth and requireRole.
Outcome(request, reply) ==
  [op |-> request.op, pc |-> "done", hdr |-> request.hdr,
   passed |-> request.user # Null, id |-> request.id, body |-> request.body,
   status |-> request.status, current_status |-> request.current_status,
   raced |-> request.raced, newPO |-> request.newPO, reply |-> reply]

\* The handler replies; the connection is free for the client's next request.
Finish(q, request, reply) ==
  reqs' = [reqs EXCEPT ![q] = Outcome(request, reply)]

Free(q) == reqs[q].pc \in {"idle", "done"}

Live(row) == row # NoRow /\ ~row.deleted_at

\* ------------------------------------------------------------------------
\* scripts/seed-database.ts
\* ------------------------------------------------------------------------
Supplier(name, contact_email) ==
  [name |-> name, contact_email |-> contact_email, deleted_at |-> FALSE]

SeedSupplierRows ==
  <<Supplier("Tech Solutions Inc", "contact@techsolutions.com"),
    Supplier("Office Supplies Co", "orders@officesupplies.com")>>

SeedSuppliers ==
  [s \in SupplierIds |->
     IF s <= Len(SeedSupplierRows) THEN SeedSupplierRows[s] ELSE NoRow]

Permission(name, description, resource, action) ==
  [name |-> name, description |-> description, resource |-> resource,
   action |-> action, deleted_at |-> FALSE]

SeedPermissionRows ==
  <<Permission("users:read", "View users", "users", "read"),
    Permission("users:write", "Create and update users", "users", "write"),
    Permission("users:delete", "Delete users", "users", "delete"),
    Permission("roles:read", "View roles", "roles", "read"),
    Permission("roles:write", "Create and update roles", "roles", "write"),
    Permission("roles:delete", "Delete roles", "roles", "delete"),
    Permission("pos:read", "View purchase orders", "pos", "read"),
    Permission("pos:write", "Create and update purchase orders", "pos", "write"),
    Permission("pos:delete", "Delete purchase orders", "pos", "delete"),
    Permission("pos:approve", "Approve purchase orders", "pos", "approve"),
    Permission("pos:reject", "Reject purchase orders", "pos", "reject"),
    Permission("pos:submit", "Submit purchase orders", "pos", "submit"),
    Permission("suppliers:read", "View suppliers", "suppliers", "read"),
    Permission("suppliers:write", "Create and update suppliers", "suppliers", "write"),
    Permission("suppliers:delete", "Delete suppliers", "suppliers", "delete"),
    Permission("deliveries:read", "View deliveries", "deliveries", "read"),
    Permission("deliveries:write", "Create and update deliveries", "deliveries", "write"),
    Permission("deliveries:delete", "Delete deliveries", "deliveries", "delete"),
    Permission("invoices:read", "View invoices", "invoices", "read"),
    Permission("invoices:write", "Create and update invoices", "invoices", "write"),
    Permission("invoices:delete", "Delete invoices", "invoices", "delete"),
    Permission("divisions:read", "View divisions", "divisions", "read"),
    Permission("divisions:write", "Create and update divisions", "divisions", "write"),
    Permission("divisions:delete", "Delete divisions", "divisions", "delete"),
    Permission("delivery_addresses:read", "View delivery addresses", "delivery_addresses", "read"),
    Permission("delivery_addresses:write", "Create and update delivery addresses", "delivery_addresses", "write"),
    Permission("delivery_addresses:delete", "Delete delivery addresses", "delivery_addresses", "delete"),
    Permission("admin:overview", "View admin overview", "admin", "overview"),
    Permission("admin:audit", "View audit logs", "admin", "audit"),
    Permission("admin:export", "Export data", "admin", "export"),
    Permission("files:upload", "Upload files", "files", "upload"),
    Permission("files:download", "Download files", "files", "download"),
    Permission("files:delete", "Delete files", "files", "delete")>>

SeedPermissions ==
  [p \in PermIds |->
     IF p <= Len(SeedPermissionRows) THEN SeedPermissionRows[p] ELSE NoRow]

\* The ids of the first permission and the first role a request creates.
FirstCreatedPerm == Len(SeedPermissionRows) + 1

\* The three roles, each a system role, with the names of its permissions.
ManagerPermissions ==
  {"users:read", "users:write", "pos:read", "pos:write", "pos:approve",
   "pos:reject", "pos:submit", "suppliers:read", "suppliers:write",
   "deliveries:read", "deliveries:write", "invoices:read",
   "invoices:write", "delivery_addresses:read",
   "delivery_addresses:write", "files:upload", "files:download"}

BasicUserPermissions ==
  {"pos:read", "pos:write", "pos:submit", "suppliers:read",
   "deliveries:read", "invoices:read", "delivery_addresses:read",
   "files:upload", "files:download"}

SeedRoleRows ==
  <<[name |-> "Admin", description |-> "Full system access",
     is_system_role |-> TRUE, deleted_at |-> FALSE],
    [name |-> "Manager", description |-> "Management level access",
     is_system_role |-> TRUE, deleted_at |-> FALSE],
    [name |-> "Basic User", description |-> "Basic user access",
     is_system_role |-> TRUE, deleted_at |-> FALSE]>>

FirstCreatedRole == Len(SeedRoleRows) + 1

SeedRoles ==
  [r \in RoleIds |-> IF r <= Len(SeedRoleRows) THEN SeedRoleRows[r] ELSE NoRow]

\* One row per permission name of each role.
SeedRolePermissions ==
  [rp \in RoleIds \X PermIds |->
     IF /\ rp[2] <= Len(SeedPermissionRows)
        /\ \/ rp[1] = 1
           \/ rp[1] = 2 /\ SeedPermissionRows[rp[2]].name \in ManagerPermissions
           \/ rp[1] = 3 /\ SeedPermissionRows[rp[2]].name \in BasicUserPermissions
     THEN "live" ELSE "none"]

\* The default admin user, in the Engineering division.
SeedUsers ==
  [u \in UserIds |->
     IF u = 1
     THEN [id |-> 1,
           email |-> "admin@hoganro.com",
           password_hash |-> hashPassword("admin123"),
           name |-> "System Administrator",
           role |-> "admin",
           division_id |-> "Engineering",
           spending_limit_cents |-> 1000000000,
           is_active |-> "true",
           deleted_at |-> FALSE]
     ELSE NoRow]

\* The admin user is given the Admin role; no other row is written.
SeedUserRoles ==
  [ur \in UserIds \X RoleIds |-> IF ur = <<1, 1>> THEN "live" ELSE "none"]

\* ------------------------------------------------------------------------
\* routes/purchase-orders.ts: PATCH /:id/status
\* ------------------------------------------------------------------------

\* A table that lets a draft be approved directly.
validTransitions_SkipPending ==
  [s \in Statuses |->
     CASE s = "draft" -> {"pending", "approved", "cancelled"}
       [] s = "pending" -> {"approved", "cancelled"}
       [] s = "approved" -> {"ordered", "cancelled"}
       [] s = "ordered" -> {"received", "cancelled"}
       [] OTHER -> {}]

\* A table in which a received order may still be cancelled.
validTransitions_CancelReceived ==
  [s \in Statuses |->
     CASE s = "draft" -> {"pending", "cancelled"}
       [] s = "pending" -> {"approved", "cancelled"}
       [] s = "approved" -> {"ordered", "cancelled"}
       [] s = "ordered" -> {"received", "cancelled"}
       [] s = "received" -> {"cancelled"}
       [] OTHER -> {}]

\* A table that accepts a request for the status an order already has.
validTransitions_Same ==
  [s \in Statuses |->
     CASE s = "draft" -> {"draft", "pending", "cancelled"}
       [] s = "pending" -> {"pending", "approved", "cancelled"}
       [] s = "approved" -> {"approved", "ordered", "cancelled"}
       [] s = "ordered" -> {"ordered", "received", "cancelled"}
       [] s = "received" -> {"received"}
       [] OTHER -> {"cancelled"}]

validTransitions ==
  [s \in Statuses |->
     CASE s = "draft" -> {"pending", "cancelled"}
       [] s = "pending" -> {"approved", "cancelled"}
       [] s = "approved" -> {"ordered", "cancelled"}
       [] s = "ordered" -> {"received", "cancelled"}
       [] s = "received" -> {}
       [] OTHER -> {}]

PoStatusRoles == {"admin", "manager"}
PoStatusFailed == "Failed to update purchase order status"

\* requireAuth, requireRole, the SELECT of the row and the validation of the
\* transition against the status that was read.
PoStatusBegin(q, hdr, id, status) ==
  /\ Free(q)
  /\ LET request == Request("po_status", hdr)
         auth == requireAuth(hdr)
         gate == IF auth.threw THEN auth ELSE requireRole(auth.user, PoStatusRoles)
         existingPO == purchase_orders[id]
         read == [request EXCEPT !.user = auth.user, !.id = id, !.status = status]
     IN IF auth.threw \/ gate.threw
        THEN Finish(q, request, Reply(500, PoStatusFailed))
        ELSE IF ~Live(existingPO)
        THEN Finish(q, read, Reply(404, "Purchase order not found"))
        ELSE IF ~(status \in validTransitions[existingPO.status])
        THEN Finish(q, [read EXCEPT !.current_status = existingPO.status],
                    Reply(400, "Invalid status transition"))
        ELSE reqs' = [reqs EXCEPT ![q] =
                        [read EXCEPT !.current_status = existingPO.status,
                                     !.pc = "update"]]
  /\ UNCHANGED <<tokens, users, rbacTables, suppliers, purchase_orders, purchase_order_items>>

\* An update that also removes the line items of the order.
PoStatusUpdate_ResetsItems(q) ==
  /\ reqs[q].op = "po_status"
  /\ reqs[q].pc = "update"
  /\ LET r == reqs[q]
     IN /\ purchase_orders' =
             [purchase_orders EXCEPT ![r.id] =
                IF @ = NoRow THEN @
                ELSE [@ EXCEPT !.status = r.status, !.updated_at = "later",
                               !.updated_by = r.user.id]]
        /\ purchase_order_items' = [purchase_order_items EXCEPT ![r.id] = 0]
        /\ reqs' = [reqs EXCEPT ![q] = Outcome(r, Reply(200, ""))]
  /\ UNCHANGED <<tokens, users, rbacTables, suppliers>>

\* UPDATE purchase_orders SET status, updated_at, updated_by WHERE id = :id
\* (the WHERE clause names the id only), then the 200 reply.  updated_at is
\* either the time of creation or a later time.  A request that
\* has read the same row and the same status and has not written yet is
\* marked as having lost the race.
PoStatusUpdate(q) ==
  /\ reqs[q].op = "po_status"
  /\ reqs[q].pc = "update"
  /\ LET r == reqs[q]
     IN /\ purchase_orders' =
             [purchase_orders EXCEPT ![r.id] =
                IF @ = NoRow THEN @
                ELSE [@ EXCEPT !.status = r.status, !.updated_at = "later",
                               !.updated_by = r.user.id]]
        /\ reqs' = [q2 \in Reqs |->
                      IF q2 = q THEN Outcome(r, Reply(200, ""))
                      ELSE IF reqs[q2].op = "po_status" /\ reqs[q2].pc = "update"
                              /\ reqs[q2].id = r.id
                              /\ reqs[q2].current_status = r.current_status
                      THEN [reqs[q2] EXCEPT !.raced = TRUE]
                      ELSE reqs[q2]]
  /\ UNCHANGED <<tokens, users, rbacTables, suppliers, purchase_order_items>>

\* The statuses the CHECK constraint of purchase_orders.status admits
\* (schema.sql), which are also the statuses of the PurchaseOrder type.
StoreStatuses ==
  {"draft", "submitted", "approved", "rejected", "delivered", "invoiced",
   "exceptions"}

\* The UPDATE of PATCH /:id/status against a store that enforces the CHECK
\* constraint: a status outside it makes the statement throw, and the catch
\* block replies 500.
PoStatusUpdateStore(q) ==
  /\ reqs[q].op = "po_status"
  /\ reqs[q].pc = "update"
  /\ IF reqs[q].status \in StoreStatuses
     THEN PoStatusUpdate(q)
     ELSE /\ Finish(q, reqs[q], Reply(500, PoStatusFailed))
          /\ UNCHANGED <<tokens, users, rbacTables, poTables>>

\* ------------------------------------------------------------------------
\* routes/purchase-orders.ts: POST /
\* ------------------------------------------------------------------------
PoCreateRoles == {"admin", "manager"}
PoCreateFailed == "Failed to create purchase order"

\* Bodies the route schema and createPurchaseOrderSchema accept.
PoBodies ==
  [po_number : PoNumbers, supplier_id : SupplierIds, status : Statuses,
   total_amount : Amounts, items : ItemCounts]

\* crypto.randomUUID(): an id no row has.
FreshPOIds == {p \in POIds : purchase_orders[p] = NoRow}
generateUUID == CHOOSE p \in FreshPOIds : \A p2 \in FreshPOIds : p <= p2

PendingInserts ==
  Cardinality({q \in Reqs : reqs[q].op = "po_create"
                            /\ reqs[q].pc \in {"supplier", "insert"}})

\* The handler without the SELECT for an existing po_number.
PoCreateBegin_NoNumberCheck(q, hdr, body) ==
  /\ Free(q)
  /\ Cardinality(FreshPOIds) > PendingInserts
  /\ LET request == Request("po_create", hdr)
         auth == requireAuth(hdr)
         gate == IF auth.threw THEN auth ELSE requireRole(auth.user, PoCreateRoles)
         parsed == [request EXCEPT !.user = auth.user, !.body = body]
     IN IF auth.threw \/ gate.threw
        THEN Finish(q, request, Reply(500, PoCreateFailed))
        ELSE reqs' = [reqs EXCEPT ![q] = [parsed EXCEPT !.pc = "supplier"]]
  /\ UNCHANGED <<tokens, users, rbacTables, suppliers, purchase_orders, purchase_order_items>>

\* requireAuth, requireRole, parse, and the SELECT for an existing po_number.
PoCreateBegin(q, hdr, body) ==
  /\ Free(q)
  /\ Cardinality(FreshPOIds) > PendingInserts
  /\ LET request == Request("po_create", hdr)
         auth == requireAuth(hdr)
         gate == IF auth.threw THEN auth ELSE requireRole(auth.user, PoCreateRoles)
         existingPO == {p \in POIds : Live(purchase_orders[p])
                                      /\ purchase_orders[p].po_number = body.po_number}
         parsed == [request EXCEPT !.user = auth.user, !.body = body]
     IN IF auth.threw \/ gate.threw
        THEN Finish(q, request, Reply(500, PoCreateFailed))
        ELSE IF existingPO # {}
        THEN Finish(q, parsed, Reply(400, "Purchase order number already exists"))
        ELSE reqs' = [reqs EXCEPT ![q] = [parsed EXCEPT !.pc = "supplier"]]
  /\ UNCHANGED <<tokens, users, rbacTables, suppliers, purchase_orders, purchase_order_items>>

\* SELECT id FROM suppliers WHERE id = :supplier_id AND deleted_at IS NULL
PoCreateSupplier(q) ==
  /\ reqs[q].op = "po_create"
  /\ reqs[q].pc = "supplier"
  /\ IF ~Live(suppliers[reqs[q].body.supplier_id])
     THEN Finish(q, reqs[q], Reply(400, "Supplier not found"))
     ELSE reqs' = [reqs EXCEPT ![q].pc = "insert"]
  /\ UNCHANGED <<tokens, users, rbacTables, suppliers, purchase_orders, purchase_order_items>>

\* withCreateAudit and INSERT INTO purchase_orders: the status is the body's.
PoCreateInsert(q) ==
  /\ reqs[q].op = "po_create"
  /\ reqs[q].pc = "insert"
  /\ FreshPOIds # {}
  /\ LET r == reqs[q]
         id == generateUUID
     IN /\ purchase_orders' =
             [purchase_orders EXCEPT ![id] =
                [po_number |-> r.body.po_number,
                 supplier_id |-> r.body.supplier_id,
                 status |-> r.body.status,
                 total_amount |-> r.body.total_amount,
                 created_by |-> r.user.id,
                 updated_at |-> "created_at",
                 updated_by |-> r.user.id,
                 deleted_at |-> FALSE]]
        /\ reqs' = [reqs EXCEPT ![q].pc = "items", ![q].newPO = id]
  /\ UNCHANGED <<tokens, users, rbacTables, suppliers, purchase_order_items>>

\* One INSERT INTO purchase_order_items; after the last one the 201 reply.
PoCreateItem(q) ==
  /\ reqs[q].op = "po_create"
  /\ reqs[q].pc = "items"
  /\ LET r == reqs[q]
         n == purchase_order_items[r.newPO] + 1
     IN /\ purchase_order_items' = [purchase_order_items EXCEPT ![r.newPO] = n]
        /\ IF n = r.body.items
           THEN Finish(q, r, Reply(201, ""))
           ELSE UNCHANGED reqs
  /\ UNCHANGED <<tokens, users, rbacTables, suppliers, purchase_orders>>

\* An INSERT INTO purchase_order_items the store rejects: the statement
\* throws, the catch replies 500, and the rows written so far stay.
PoCreateItemFails(q) ==
  /\ reqs[q].op = "po_create"
  /\ reqs[q].pc = "items"
  /\ Finish(q, reqs[q], Reply(500, PoCreateFailed))
  /\ UNCHANGED <<tokens, users, rbacTables, suppliers, purchase_orders, purchase_order_items>>

\* ------------------------------------------------------------------------
\* lib/auth.ts: permission resolution
\* ------------------------------------------------------------------------

\* The join without the condition on u.id.
getUserPermissions_AnyUser(userId) ==
  {permissions[t[3]].name :
     t \in {t \in UserIds \X RoleIds \X PermIds :
              /\ users[t[1]] # NoRow
              /\ user_roles[t[1], t[2]] # "none"
              /\ role_permissions[t[2], t[3]] # "none"
              /\ permissions[t[3]] # NoRow
              /\ ~users[t[1]].deleted_at
              /\ user_roles[t[1], t[2]] = "live"
              /\ role_permissions[t[2], t[3]] = "live"
              /\ ~permissions[t[3]].deleted_at}}

\* SELECT DISTINCT p.name FROM users u JOIN user_roles ur JOIN
\* role_permissions rp JOIN permissions p WHERE u.id = :userId and u, ur, rp
\* and p are not deleted.  The roles table is not part of the join.
getUserPermissions(userId) ==
  {permissions[t[3]].name :
     t \in {t \in UserIds \X RoleIds \X PermIds :
              /\ t[1] = userId
              /\ users[t[1]] # NoRow
              /\ user_roles[t[1], t[2]] # "none"
              /\ role_permissions[t[2], t[3]] # "none"
              /\ permissions[t[3]] # NoRow
              /\ ~users[t[1]].deleted_at
              /\ user_roles[t[1], t[2]] = "live"
              /\ role_permissions[t[2], t[3]] = "live"
              /\ ~permissions[t[3]].deleted_at}}

hasPermission(userId, permission) == permission \in getUserPermissions(userId)

requirePermission(userId, permission) ==
  IF ~hasPermission(userId, permission)
  THEN [threw |-> TRUE, message |-> "Forbidden: Missing required permission"]
  ELSE [threw |-> FALSE, message |-> ""]

\* The same three functions with the store's answer to the query made
\* explicit: queryFails is TRUE when the sql call rejects.  getUserPermissions
\* catches the rejection, logs it and returns the empty list.
getUserPermissionsTry(userId, queryFails) ==
  IF queryFails THEN {} ELSE getUserPermissions(userId)

hasPermissionTry(userId, permission, queryFails) ==
  permission \in getUserPermissionsTry(userId, queryFails)

requirePermissionTry(userId, permission, queryFails) ==
  IF ~hasPermissionTry(userId, permission, queryFails)
  THEN [threw |-> TRUE, message |-> "Forbidden: Missing required permission"]
  ELSE [threw |-> FALSE, message |-> ""]

\* ------------------------------------------------------------------------
\* routes/roles.ts
\* ------------------------------------------------------------------------
RoleReadRoles == {"admin", "manager"}
RoleWriteRoles == {"admin"}

\* The ids a permissions list names, as = ANY(:permissions) reads them.
ListIds(list) == {list[i] : i \in DOMAIN list}

\* Bodies createRoleSchema accepts; permissions is a list of distinct ids:
\* empty, one id, an id that no seeded permission has, two ids in descending
\* order.
RoleBodies ==
  [name : {"Buyer", "Clerk"}, is_system_role : BOOLEAN,
   permissions : {<<>>, <<1>>, <<FirstCreatedPerm>>, <<2, 1>>}]

FreshRoleIds == {r \in RoleIds : roles[r] = NoRow}
newRoleId == CHOOSE r \in FreshRoleIds : \A r2 \in FreshRoleIds : r <= r2

\* GET /:id: requireAuth, requireRole, and the SELECT of the role.
RoleGet(q, hdr, id) ==
  /\ Free(q)
  /\ LET request == Request("role_get", hdr)
         auth == requireAuth(hdr)
         gate == IF auth.threw THEN auth ELSE requireRole(auth.user, RoleReadRoles)
         read == [request EXCEPT !.user = auth.user, !.id = id]
     IN IF auth.threw \/ gate.threw
        THEN Finish(q, request, Reply(500, "Failed to fetch role"))
        ELSE IF ~Live(roles[id])
        THEN Finish(q, read, Reply(404, "Role not found"))
        ELSE Finish(q, read, Reply(200, ""))
  /\ UNCHANGED <<tokens, users, poTables, rbacTables>>

\* POST /: requireAuth, requireRole, parse, and the SELECT for the name.
RoleCreateBegin(q, hdr, body) ==
  /\ Free(q)
  /\ FreshRoleIds # {}
  /\ LET request == Request("role_create", hdr)
         auth == requireAuth(hdr)
         gate == IF auth.threw THEN auth ELSE requireRole(auth.user, RoleWriteRoles)
         existingRole == {r \in RoleIds : Live(roles[r]) /\ roles[r].name = body.name}
         parsed == [request EXCEPT !.user = auth.user, !.body = body]
     IN IF auth.threw \/ gate.threw
        THEN Finish(q, request, Reply(500, "Failed to create role"))
        ELSE IF existingRole # {}
        THEN Finish(q, parsed, Reply(400, "Role name already exists"))
        ELSE reqs' = [reqs EXCEPT ![q] =
                        [parsed EXCEPT !.pc = IF Len(body.permissions) > 0
                                              THEN "validate" ELSE "insert"]]
  /\ UNCHANGED <<tokens, users, poTables, rbacTables>>

\* SELECT id FROM permissions WHERE id = ANY(:permissions) AND deleted_at IS NULL
RoleCreateValidate(q) ==
  /\ reqs[q].op = "role_create"
  /\ reqs[q].pc = "validate"
  /\ LET validPermissions == {p \in PermIds : /\ p \in ListIds(reqs[q].body.permissions)
                                              /\ Live(permissions[p])}
     IN IF Cardinality(validPermissions) # Len(reqs[q].body.permissions)
        THEN Finish(q, reqs[q], Reply(400, "One or more permissions are invalid"))
        ELSE reqs' = [reqs EXCEPT ![q].pc = "insert"]
  /\ UNCHANGED <<tokens, users, poTables, rbacTables>>

\* INSERT INTO roles.  The name column is UNIQUE over all rows, deleted ones
\* included: the insert of a name a soft-deleted role carries throws.
RoleCreateInsert(q) ==
  /\ reqs[q].op = "role_create"
  /\ reqs[q].pc = "insert"
  /\ LET r == reqs[q]
         id == newRoleId
     IN IF \E r2 \in RoleIds : roles[r2] # NoRow /\ roles[r2].name = r.body.name
        THEN /\ Finish(q, r, Reply(500, "Failed to create role"))
             /\ UNCHANGED roles
        ELSE /\ FreshRoleIds # {}
             /\ roles' = [roles EXCEPT ![id] =
                            [name |-> r.body.name,
                             description |-> "null",
                             is_system_role |-> r.body.is_system_role,
                             deleted_at |-> FALSE]]
             /\ reqs' = [reqs EXCEPT ![q].id = id,
                                     ![q].pc = IF Len(r.body.permissions) > 0
                                               THEN "assign" ELSE "fetch"]
  /\ UNCHANGED <<tokens, users, poTables, permissions, role_permissions, user_roles>>

\* for (const permissionId of data.permissions): one INSERT INTO
\* role_permissions for the next element of the list.  inserted counts the
\* elements the loop has passed.  UNIQUE(role_id, permission_id): a pair that
\* has a row makes the insert throw.
RoleCreateAssign(q) ==
  /\ reqs[q].op = "role_create"
  /\ reqs[q].pc = "assign"
  /\ LET r == reqs[q]
         permissionId == r.body.permissions[r.inserted + 1]
     IN IF role_permissions[r.id, permissionId] # "none"
        THEN /\ Finish(q, r, Reply(500, "Failed to create role"))
             /\ UNCHANGED role_permissions
        ELSE /\ role_permissions' =
                  [role_permissions EXCEPT ![r.id, permissionId] = "live"]
             /\ reqs' = [reqs EXCEPT ![q].inserted = r.inserted + 1,
                                     ![q].pc = IF r.inserted + 1 = Len(r.body.permissions)
                                               THEN "fetch" ELSE "assign"]
  /\ UNCHANGED <<tokens, users, poTables, roles, permissions, user_roles>>

\* The SELECT of the complete role, and the 201 reply.
RoleCreateFetch(q) ==
  /\ reqs[q].op = "role_create"
  /\ reqs[q].pc = "fetch"
  /\ Finish(q, reqs[q], Reply(201, ""))
  /\ UNCHANGED <<tokens, users, poTables, rbacTables>>

\* The handler without the system-role check.
RoleDeleteBegin_NoSystemCheck(q, hdr, id) ==
  /\ Free(q)
  /\ LET request == Request("role_delete", hdr)
         auth == requireAuth(hdr)
         gate == IF auth.threw THEN auth ELSE requireRole(auth.user, RoleWriteRoles)
         read == [request EXCEPT !.user = auth.user, !.id = id]
     IN IF auth.threw \/ gate.threw
        THEN Finish(q, request, Reply(500, "Failed to delete role"))
        ELSE IF ~Live(roles[id])
        THEN Finish(q, read, Reply(404, "Role not found"))
        ELSE reqs' = [reqs EXCEPT ![q] = [read EXCEPT !.pc = "count"]]
  /\ UNCHANGED <<tokens, users, poTables, rbacTables>>

\* DELETE /:id: requireAuth, requireRole, the SELECT of the role and the
\* system-role check.
RoleDeleteBegin(q, hdr, id) ==
  /\ Free(q)
  /\ LET request == Request("role_delete", hdr)
         auth == requireAuth(hdr)
         gate == IF auth.threw THEN auth ELSE requireRole(auth.user, RoleWriteRoles)
         read == [request EXCEPT !.user = auth.user, !.id = id]
     IN IF auth.threw \/ gate.threw
        THEN Finish(q, request, Reply(500, "Failed to delete role"))
        ELSE IF ~Live(roles[id])
        THEN Finish(q, read, Reply(404, "Role not found"))
        ELSE IF roles[id].is_system_role
        THEN Finish(q, read, Reply(400, "Cannot delete system roles"))
        ELSE reqs' = [reqs EXCEPT ![q] = [read EXCEPT !.pc = "count"]]
  /\ UNCHANGED <<tokens, users, poTables, rbacTables>>

\* SELECT COUNT(*) FROM user_roles WHERE role_id = :id AND deleted_at IS NULL
RoleDeleteCount(q) ==
  /\ reqs[q].op = "role_delete"
  /\ reqs[q].pc = "count"
  /\ LET usersWithRole == {u \in UserIds : user_roles[u, reqs[q].id] = "live"}
     IN IF Cardinality(usersWithRole) > 0
        THEN Finish(q, reqs[q], Reply(400, "Cannot delete role that is assigned to users"))
        ELSE reqs' = [reqs EXCEPT ![q].pc = "delete"]
  /\ UNCHANGED <<tokens, users, poTables, rbacTables>>

\* UPDATE roles SET deleted_at WHERE id = :id
RoleDeleteRole(q) ==
  /\ reqs[q].op = "role_delete"
  /\ reqs[q].pc = "delete"
  /\ roles' = [roles EXCEPT ![reqs[q].id] =
                 IF @ = NoRow THEN @ ELSE [@ EXCEPT !.deleted_at = TRUE]]
  /\ reqs' = [reqs EXCEPT ![q].pc = "unassign"]
  /\ UNCHANGED <<tokens, users, poTables, permissions, role_permissions, user_roles>>

\* UPDATE role_permissions SET deleted_at WHERE role_id = :id, and the 204.
RoleDeleteUnassign(q) ==
  /\ reqs[q].op = "role_delete"
  /\ reqs[q].pc = "unassign"
  /\ role_permissions' =
       [rp \in RoleIds \X PermIds |->
          IF rp[1] = reqs[q].id /\ role_permissions[rp] # "none"
          THEN "deleted" ELSE role_permissions[rp]]
  /\ Finish(q, reqs[q], Reply(204, ""))
  /\ UNCHANGED <<tokens, users, poTables, roles, permissions, user_roles>>

\* ------------------------------------------------------------------------
\* routes/roles.ts: the reply of a handler served alone, as a function of the
\* tables it reads
\* ------------------------------------------------------------------------
RoleGate(hdr, allowedRoles) ==
  LET auth == requireAuth(hdr)
  IN IF auth.threw THEN auth ELSE requireRole(auth.user, allowedRoles)

\* GET /:id
RoleGetReply(rolesTable, hdr, id) ==
  IF RoleGate(hdr, RoleReadRoles).threw
  THEN Reply(500, "Failed to fetch role")
  ELSE IF ~Live(rolesTable[id])
  THEN Reply(404, "Role not found")
  ELSE Reply(200, "")

\* POST /
RoleCreateReply(rolesTable, permissionsTable, hdr, body) ==
  LET existingRole == {r \in RoleIds : Live(rolesTable[r])
                                       /\ rolesTable[r].name = body.name}
      validPermissions == {p \in PermIds : /\ p \in ListIds(body.permissions)
                                            /\ Live(permissionsTable[p])}
  IN IF RoleGate(hdr, RoleWriteRoles).threw
     THEN Reply(500, "Failed to create role")
     ELSE IF existingRole # {}
     THEN Reply(400, "Role name already exists")
     ELSE IF Cardinality(validPermissions) # Len(body.permissions)
     THEN Reply(400, "One or more permissions are invalid")
     ELSE IF \E r2 \in RoleIds : rolesTable[r2] # NoRow
                                 /\ rolesTable[r2].name = body.name
     THEN Reply(500, "Failed to create role")
     ELSE Reply(201, "")

\* DELETE /:id
RoleDeleteReply(rolesTable, userRolesTable, hdr, id) ==
  LET usersWithRole == {u \in UserIds : userRolesTable[u, id] = "live"}
  IN IF RoleGate(hdr, RoleWriteRoles).threw
     THEN Reply(500, "Failed to delete role")
     ELSE IF ~Live(rolesTable[id])
     THEN Reply(404, "Role not found")
     ELSE IF rolesTable[id].is_system_role
     THEN Reply(400, "Cannot delete system roles")
     ELSE IF Cardinality(usersWithRole) > 0
     THEN Reply(400, "Cannot delete role that is assigned to users")
     ELSE Reply(204, "")

\* ------------------------------------------------------------------------
\* routes/permissions.ts: DELETE /:id
\* ------------------------------------------------------------------------
PermissionWriteRoles == {"admin"}

\* requireAuth, requireRole and the SELECT of the permission.
PermissionDeleteBegin(q, hdr, id) ==
  /\ Free(q)
  /\ LET request == Request("permission_delete", hdr)
         auth == requireAuth(hdr)
         gate == IF auth.threw THEN auth
                 ELSE requireRole(auth.user, PermissionWriteRoles)
         read == [request EXCEPT !.user = auth.user, !.id = id]
     IN IF auth.threw \/ gate.threw
        THEN Finish(q, request, Reply(500, "Failed to delete permission"))
        ELSE IF ~Live(permissions[id])
        THEN Finish(q, read, Reply(404, "Permission not found"))
        ELSE reqs' = [reqs EXCEPT ![q] = [read EXCEPT !.pc = "count"]]
  /\ UNCHANGED <<tokens, users, poTables, rbacTables>>

\* SELECT COUNT(*) FROM role_permissions WHERE permission_id = :id AND
\* deleted_at IS NULL
PermissionDeleteCount(q) ==
  /\ reqs[q].op = "permission_delete"
  /\ reqs[q].pc = "count"
  /\ LET rolesWithPermission == {r \in RoleIds : role_permissions[r, reqs[q].id] = "live"}
     IN IF Cardinality(rolesWithPermission) > 0
        THEN Finish(q, reqs[q],
                    Reply(400, "Cannot delete permission that is assigned to roles"))
        ELSE reqs' = [reqs EXCEPT ![q].pc = "delete"]
  /\ UNCHANGED <<tokens, users, poTables, rbacTables>>

\* UPDATE permissions SET deleted_at WHERE id = :id, and the 204.
PermissionDeletePermission(q) ==
  /\ reqs[q].op = "permission_delete"
  /\ reqs[q].pc = "delete"
  /\ permissions' = [permissions EXCEPT ![reqs[q].id] =
                       IF @ = NoRow THEN @ ELSE [@ EXCEPT !.deleted_at = TRUE]]
  /\ Finish(q, reqs[q], Reply(204, ""))
  /\ UNCHANGED <<tokens, users, poTables, roles, role_permissions, user_roles>>

\* ------------------------------------------------------------------------
\* routes/permissions.ts: POST /
\* ------------------------------------------------------------------------
\* An optional body field that is absent; an absent description.
Absent == ""
Undefined == "undefined"

FreshPermIds == {p \in PermIds : permissions[p] = NoRow}
newPermId == CHOOSE p \in FreshPermIds : \A p2 \in FreshPermIds : p <= p2

\* The rows, deleted or not, other than row id that carry the name.
PermsNamed(name, id) ==
  {p \in PermIds \ {id} : permissions[p] # NoRow /\ permissions[p].name = name}

\* requireAuth, requireRole, parse and the SELECT by name.
PermissionCreateBegin(q, hdr, body) ==
  /\ Free(q)
  /\ FreshPermIds # {} \/ PermsNamed(body.name, 0) # {}
  /\ LET request == Request("permission_create", hdr)
         auth == requireAuth(hdr)
         gate == IF auth.threw THEN auth
                 ELSE requireRole(auth.user, PermissionWriteRoles)
         existingByName == {p \in PermIds : Live(permissions[p])
                                            /\ permissions[p].name = body.name}
         parsed == [request EXCEPT !.user = auth.user, !.body = body]
     IN IF auth.threw \/ gate.threw
        THEN Finish(q, request, Reply(500, "Failed to create permission"))
        ELSE IF existingByName # {}
        THEN Finish(q, parsed, Reply(400, "Permission name already exists"))
        ELSE reqs' = [reqs EXCEPT ![q] = [parsed EXCEPT !.pc = "pair"]]
  /\ UNCHANGED <<tokens, users, poTables, rbacTables>>

\* SELECT id FROM permissions WHERE resource = :resource AND action = :action
\* AND deleted_at IS NULL
PermissionCreatePair(q) ==
  /\ reqs[q].op = "permission_create"
  /\ reqs[q].pc = "pair"
  /\ LET existingByResourceAction ==
           {p \in PermIds : /\ Live(permissions[p])
                            /\ permissions[p].resource = reqs[q].body.resource
                            /\ permissions[p].action = reqs[q].body.action}
     IN IF existingByResourceAction # {}
        THEN Finish(q, reqs[q],
                    Reply(400, "Permission for this resource and action combination already exists"))
        ELSE reqs' = [reqs EXCEPT ![q].pc = "insert"]
  /\ UNCHANGED <<tokens, users, poTables, rbacTables>>

\* INSERT INTO permissions, and the 201.  The name column is UNIQUE over all
\* rows, deleted ones included: the insert of such a name throws.
PermissionCreateInsert(q) ==
  /\ reqs[q].op = "permission_create"
  /\ reqs[q].pc = "insert"
  /\ LET r == reqs[q]
     IN IF PermsNamed(r.body.name, 0) # {}
        THEN /\ Finish(q, r, Reply(500, "Failed to create permission"))
             /\ UNCHANGED permissions
        ELSE /\ FreshPermIds # {}
             /\ permissions' = [permissions EXCEPT ![newPermId] =
                                  [name |-> r.body.name,
                                   description |-> IF r.body.description = Undefined
                                                   THEN "null" ELSE r.body.description,
                                   resource |-> r.body.resource,
                                   action |-> r.body.action,
                                   deleted_at |-> FALSE]]
             /\ Finish(q, [r EXCEPT !.id = newPermId], Reply(201, ""))
  /\ UNCHANGED <<tokens, users, poTables, roles, role_permissions, user_roles>>

\* ------------------------------------------------------------------------
\* routes/permissions.ts: PUT /:id
\* ------------------------------------------------------------------------
\* The handler checks the name only when the body changes it, and the pair
\* only when the body changes the resource or the action.
NameChanges(data, existingPermission) ==
  data.name # Absent /\ data.name # existingPermission.name

PairChanges(data, existingPermission) ==
  \/ data.resource # Absent /\ data.resource # existingPermission.resource
  \/ data.action # Absent /\ data.action # existingPermission.action

newResource(data, existingPermission) ==
  IF data.resource # Absent THEN data.resource ELSE existingPermission.resource

newAction(data, existingPermission) ==
  IF data.action # Absent THEN data.action ELSE existingPermission.action

\* requireAuth, requireRole, parse and the SELECT of the permission.
PermissionUpdateBegin(q, hdr, id, body) ==
  /\ Free(q)
  /\ LET request == Request("permission_update", hdr)
         auth == requireAuth(hdr)
         gate == IF auth.threw THEN auth
                 ELSE requireRole(auth.user, PermissionWriteRoles)
         read == [request EXCEPT !.user = auth.user, !.id = id, !.body = body]
         existingPermission == permissions[id]
     IN IF auth.threw \/ gate.threw
        THEN Finish(q, request, Reply(500, "Failed to update permission"))
        ELSE IF ~Live(existingPermission)
        THEN Finish(q, read, Reply(404, "Permission not found"))
        ELSE reqs' = [reqs EXCEPT ![q] =
                        [read EXCEPT !.existing = existingPermission,
                                     !.pc = IF NameChanges(body, existingPermission)
                                            THEN "name"
                                            ELSE IF PairChanges(body, existingPermission)
                                            THEN "pair" ELSE "write"]]
  /\ UNCHANGED <<tokens, users, poTables, rbacTables>>

\* SELECT id FROM permissions WHERE name = :name AND id != :id AND
\* deleted_at IS NULL
PermissionUpdateName(q) ==
  /\ reqs[q].op = "permission_update"
  /\ reqs[q].pc = "name"
  /\ LET r == reqs[q]
         nameExists == {p \in PermIds \ {r.id} : /\ Live(permissions[p])
                                                 /\ permissions[p].name = r.body.name}
     IN IF nameExists # {}
        THEN Finish(q, r, Reply(400, "Permission name already exists"))
        ELSE reqs' = [reqs EXCEPT ![q].pc = IF PairChanges(r.body, r.existing)
                                            THEN "pair" ELSE "write"]
  /\ UNCHANGED <<tokens, users, poTables, rbacTables>>

\* SELECT id FROM permissions WHERE resource = :newResource AND
\* action = :newAction AND id != :id AND deleted_at IS NULL
PermissionUpdatePair_NoPairCheck(q) ==
  /\ reqs[q].op = "permission_update"
  /\ reqs[q].pc = "pair"
  /\ reqs' = [reqs EXCEPT ![q].pc = "write"]
  /\ UNCHANGED <<tokens, users, poTables, rbacTables>>

PermissionUpdatePair(q) ==
  /\ reqs[q].op = "permission_update"
  /\ reqs[q].pc = "pair"
  /\ LET r == reqs[q]
         resourceActionExists ==
           {p \in PermIds \ {r.id} :
              /\ Live(permissions[p])
              /\ permissions[p].resource = newResource(r.body, r.existing)
              /\ permissions[p].action = newAction(r.body, r.existing)}
     IN IF resourceActionExists # {}
        THEN Finish(q, r,
                    Reply(400, "Permission for this resource and action combination already exists"))
        ELSE reqs' = [reqs EXCEPT ![q].pc = "write"]
  /\ UNCHANGED <<tokens, users, poTables, rbacTables>>

\* UPDATE permissions SET name = COALESCE(:name, name), description = ...,
\* resource = COALESCE(...), action = COALESCE(...) WHERE id = :id, and the
\* 200.  A name that another row, deleted or not, carries makes it throw.
PermissionUpdateWrite(q) ==
  /\ reqs[q].op = "permission_update"
  /\ reqs[q].pc = "write"
  /\ LET r == reqs[q]
         row == permissions[r.id]
         name == IF r.body.name # Absent THEN r.body.name ELSE row.name
     IN IF PermsNamed(name, r.id) # {}
        THEN /\ Finish(q, r, Reply(500, "Failed to update permission"))
             /\ UNCHANGED permissions
        ELSE /\ permissions' = [permissions EXCEPT ![r.id] =
                  [row EXCEPT !.name = name,
                              !.description = IF r.body.description # Undefined
                                              THEN r.body.description ELSE "null",
                              !.resource = IF r.body.resource # Absent
                                           THEN r.body.resource ELSE @,
                              !.action = IF r.body.action # Absent
                                         THEN r.body.action ELSE @]]
             /\ Finish(q, r, Reply(200, ""))
  /\ UNCHANGED <<tokens, users, poTables, roles, role_permissions, user_roles>>

\* ------------------------------------------------------------------------
\* routes/users.ts: DELETE /:id
\* ------------------------------------------------------------------------
UserDeleteRoles == {"admin"}

\* requireAuth, requireRole and the SELECT of the user.
UserDeleteBegin(q, hdr, id) ==
  /\ Free(q)
  /\ LET request == Request("user_delete", hdr)
         auth == requireAuth(hdr)
         gate == IF auth.threw THEN auth ELSE requireRole(auth.user, UserDeleteRoles)
         read == [request EXCEPT !.user = auth.user, !.id = id]
     IN IF auth.threw \/ gate.threw
        THEN Finish(q, request, Reply(500, "Failed to delete user"))
        ELSE IF ~Live(users[id])
        THEN Finish(q, read, Reply(404, "User not found"))
        ELSE reqs' = [reqs EXCEPT ![q] = [read EXCEPT !.pc = "delete"]]
  /\ UNCHANGED <<tokens, users, poTables, rbacTables>>

\* UPDATE users SET deleted_at WHERE id = :id, and the 204.
UserDeleteUser(q) ==
  /\ reqs[q].op = "user_delete"
  /\ reqs[q].pc = "delete"
  /\ users' = [users EXCEPT ![reqs[q].id] =
                 IF @ = NoRow THEN @ ELSE [@ EXCEPT !.deleted_at = TRUE]]
  /\ Finish(q, reqs[q], Reply(204, ""))
  /\ UNCHANGED <<tokens, poTables, rbacTables>>

\* ------------------------------------------------------------------------
\* routes/roles.ts: PUT /:id
\* ------------------------------------------------------------------------
\* The statement the handler runs next, skipping the ones the body does not
\* ask for.  given says whether the body has a permissions list; an empty
\* list is a list.
RoleUpdateAfterRole(data) ==
  IF ~data.given THEN "fetch"
  ELSE IF Len(data.permissions) > 0 THEN "validate" ELSE "remove"

RoleUpdateAfterName(data) ==
  IF data.name # Absent \/ data.description # Undefined THEN "role"
  ELSE RoleUpdateAfterRole(data)

\* The non-deleted assignments of a role.
Assigned(id) == {p \in PermIds : role_permissions[id, p] = "live"}

\* requireAuth, requireRole, parse, the SELECT of the role and the system-role
\* check.  existing keeps the role as the request found it.
RoleUpdateBegin(q, hdr, id, body) ==
  /\ Free(q)
  /\ LET request == Request("role_update", hdr)
         auth == requireAuth(hdr)
         gate == IF auth.threw THEN auth ELSE requireRole(auth.user, RoleWriteRoles)
         read == [request EXCEPT !.user = auth.user, !.id = id, !.body = body]
         existingRole == roles[id]
     IN IF auth.threw \/ gate.threw
        THEN Finish(q, request, Reply(500, "Failed to update role"))
        ELSE IF ~Live(existingRole)
        THEN Finish(q, read, Reply(404, "Role not found"))
        ELSE IF existingRole.is_system_role /\ auth.user.role # "admin"
        THEN Finish(q, read, Reply(403, "Cannot modify system roles"))
        ELSE reqs' = [reqs EXCEPT ![q] =
                        [read EXCEPT !.existing = [name |-> existingRole.name,
                                                   description |-> existingRole.description,
                                                   permissions |-> Assigned(id)],
                                     !.pc = IF body.name # Absent
                                               /\ body.name # existingRole.name
                                            THEN "name" ELSE RoleUpdateAfterName(body)]]
  /\ UNCHANGED <<tokens, users, poTables, rbacTables>>

\* SELECT id FROM roles WHERE name = :name AND id != :id AND deleted_at IS NULL
RoleUpdateName(q) ==
  /\ reqs[q].op = "role_update"
  /\ reqs[q].pc = "name"
  /\ LET r == reqs[q]
         nameExists == {r2 \in RoleIds \ {r.id} : /\ Live(roles[r2])
                                                  /\ roles[r2].name = r.body.name}
     IN IF nameExists # {}
        THEN Finish(q, r, Reply(400, "Role name already exists"))
        ELSE reqs' = [reqs EXCEPT ![q].pc = RoleUpdateAfterName(r.body)]
  /\ UNCHANGED <<tokens, users, poTables, rbacTables>>

\* UPDATE roles SET name = COALESCE(:name, name), description = ... WHERE
\* id = :id.  The name column is UNIQUE over all rows, deleted ones included.
RoleUpdateRole(q) ==
  /\ reqs[q].op = "role_update"
  /\ reqs[q].pc = "role"
  /\ LET r == reqs[q]
         name == IF r.body.name # Absent THEN r.body.name ELSE roles[r.id].name
     IN IF \E r2 \in RoleIds \ {r.id} : roles[r2] # NoRow /\ roles[r2].name = name
        THEN /\ Finish(q, r, Reply(500, "Failed to update role"))
             /\ UNCHANGED roles
        ELSE /\ roles' = [roles EXCEPT ![r.id] =
                            [@ EXCEPT !.name = name,
                                      !.description =
                                         IF r.body.description # Undefined
                                         THEN r.body.description ELSE "null"]]
             /\ reqs' = [reqs EXCEPT ![q].pc = RoleUpdateAfterRole(r.body)]
  /\ UNCHANGED <<tokens, users, poTables, permissions, role_permissions, user_roles>>

\* SELECT id FROM permissions WHERE id = ANY(:permissions) AND deleted_at IS NULL
RoleUpdateValidate(q) ==
  /\ reqs[q].op = "role_update"
  /\ reqs[q].pc = "validate"
  /\ LET validPermissions == {p \in PermIds : /\ p \in ListIds(reqs[q].body.permissions)
                                              /\ Live(permissions[p])}
     IN IF Cardinality(validPermissions) # Len(reqs[q].body.permissions)
        THEN Finish(q, reqs[q], Reply(400, "One or more permissions are invalid"))
        ELSE reqs' = [reqs EXCEPT ![q].pc = "remove"]
  /\ UNCHANGED <<tokens, users, poTables, rbacTables>>

\* UPDATE role_permissions SET deleted_at WHERE role_id = :id
RoleUpdateRemove(q) ==
  /\ reqs[q].op = "role_update"
  /\ reqs[q].pc = "remove"
  /\ role_permissions' =
       [rp \in RoleIds \X PermIds |->
          IF rp[1] = reqs[q].id /\ role_permissions[rp] # "none"
          THEN "deleted" ELSE role_permissions[rp]]
  /\ reqs' = [reqs EXCEPT ![q].pc = IF Len(reqs[q].body.permissions) = 0
                                    THEN "fetch" ELSE "assign"]
  /\ UNCHANGED <<tokens, users, poTables, roles, permissions, user_roles>>

\* for (const permissionId of data.permissions): one INSERT INTO
\* role_permissions for the next element of the list.  inserted counts the
\* elements the loop has passed.  UNIQUE(role_id, permission_id) covers
\* deleted rows: a pair that has a row, whoever wrote it, makes the insert
\* throw.
RoleUpdateAssign(q) ==
  /\ reqs[q].op = "role_update"
  /\ reqs[q].pc = "assign"
  /\ LET r == reqs[q]
         permissionId == r.body.permissions[r.inserted + 1]
     IN IF role_permissions[r.id, permissionId] # "none"
        THEN /\ Finish(q, r, Reply(500, "Failed to update role"))
             /\ UNCHANGED role_permissions
        ELSE /\ role_permissions' =
                  [role_permissions EXCEPT ![r.id, permissionId] = "live"]
             /\ reqs' = [reqs EXCEPT ![q].inserted = r.inserted + 1,
                                     ![q].pc = IF r.inserted + 1 = Len(r.body.permissions)
                                               THEN "fetch" ELSE "assign"]
  /\ UNCHANGED <<tokens, users, poTables, roles, permissions, user_roles>>

\* The SELECT of the complete role, and the reply.
RoleUpdateFetch(q) ==
  /\ reqs[q].op = "role_update"
  /\ reqs[q].pc = "fetch"
  /\ Finish(q, reqs[q], Reply(200, ""))
  /\ UNCHANGED <<tokens, users, poTables, rbacTables>>

\* ------------------------------------------------------------------------
\* routes/suppliers.ts: DELETE /:id
\* ------------------------------------------------------------------------
SupplierWriteRoles == {"admin", "manager"}

\* The statuses that make a purchase order count as active for its supplier.
ActiveStatuses == {"pending", "approved", "ordered"}

\* requireAuth, requireRole and the SELECT of the supplier.
SupplierDeleteBegin(q, hdr, id) ==
  /\ Free(q)
  /\ LET request == Request("supplier_delete", hdr)
         auth == requireAuth(hdr)
         gate == IF auth.threw THEN auth
                 ELSE requireRole(auth.user, SupplierWriteRoles)
         read == [request EXCEPT !.user = auth.user, !.id = id]
     IN IF auth.threw \/ gate.threw
        THEN Finish(q, request, Reply(500, "Failed to delete supplier"))
        ELSE IF ~Live(suppliers[id])
        THEN Finish(q, read, Reply(404, "Supplier not found"))
        ELSE reqs' = [reqs EXCEPT ![q] = [read EXCEPT !.pc = "count"]]
  /\ UNCHANGED <<tokens, users, poTables, rbacTables>>

\* SELECT COUNT(*) FROM purchase_orders WHERE supplier_id = :id AND status IN
\* ('pending', 'approved', 'ordered') AND deleted_at IS NULL
SupplierDeleteCount(q) ==
  /\ reqs[q].op = "supplier_delete"
  /\ reqs[q].pc = "count"
  /\ LET activePO == {p \in POIds : /\ Live(purchase_orders[p])
                                    /\ purchase_orders[p].supplier_id = reqs[q].id
                                    /\ purchase_orders[p].status \in ActiveStatuses}
     IN IF Cardinality(activePO) > 0
        THEN Finish(q, reqs[q],
                    Reply(400, "Cannot delete supplier with active purchase orders"))
        ELSE reqs' = [reqs EXCEPT ![q].pc = "delete"]
  /\ UNCHANGED <<tokens, users, poTables, rbacTables>>

\* UPDATE suppliers SET deleted_at WHERE id = :id, and the 204.
SupplierDeleteSupplier(q) ==
  /\ reqs[q].op = "supplier_delete"
  /\ reqs[q].pc = "delete"
  /\ suppliers' = [suppliers EXCEPT ![reqs[q].id] =
                     IF @ = NoRow THEN @ ELSE [@ EXCEPT !.deleted_at = TRUE]]
  /\ Finish(q, reqs[q], Reply(204, ""))
  /\ UNCHANGED <<tokens, users, rbacTables, purchase_orders, purchase_order_items>>

\* ------------------------------------------------------------------------
\* routes/users.ts: PUT /:id
\* ------------------------------------------------------------------------
\* spending_limit_cents that is not in the body; the driver sends it, like
\* every undefined parameter, as NULL.
NoCents == 0 - 1

\* The first gate: an admin, the user themself, or a manager.
UserUpdateForbidden(user, id) ==
  user.role # "admin" /\ user.id # id /\ user.role # "manager"

\* The second gate: a manager may update another user of their own division.
UserUpdateOtherDivision(user, id, targetUser) ==
  user.role = "manager" /\ user.id # id /\ targetUser.division_id # user.division_id

\* requireAuth, the role gate, parse, the SELECT of the target and the
\* division gate.
UserUpdateBegin(q, hdr, id, body) ==
  /\ Free(q)
  /\ LET request == Request("user_update", hdr)
         auth == requireAuth(hdr)
         read == [request EXCEPT !.user = auth.user, !.id = id, !.body = body]
         targetUser == users[id]
     IN IF auth.threw
        THEN Finish(q, request, Reply(500, "Failed to update user"))
        ELSE IF UserUpdateForbidden(auth.user, id)
        THEN Finish(q, read, Reply(403, "Forbidden"))
        ELSE IF ~Live(targetUser)
        THEN Finish(q, read, Reply(404, "User not found"))
        ELSE IF UserUpdateOtherDivision(auth.user, id, targetUser)
        THEN Finish(q, read, Reply(403, "Forbidden"))
        ELSE reqs' = [reqs EXCEPT ![q] =
                        [read EXCEPT !.existing = targetUser,
                                     !.pc = IF body.email # Absent
                                               /\ body.email # targetUser.email
                                            THEN "email" ELSE "write"]]
  /\ UNCHANGED <<tokens, users, poTables, rbacTables>>

\* SELECT id FROM users WHERE email = :email AND id != :id AND deleted_at IS
\* NULL
UserUpdateEmail(q) ==
  /\ reqs[q].op = "user_update"
  /\ reqs[q].pc = "email"
  /\ LET r == reqs[q]
         existingUser == {u \in UserIds \ {r.id} : /\ Live(users[u])
                                                   /\ users[u].email = r.body.email}
     IN IF existingUser # {}
        THEN Finish(q, r, Reply(400, "Email already in use"))
        ELSE reqs' = [reqs EXCEPT ![q].pc = "write"]
  /\ UNCHANGED <<tokens, users, poTables, rbacTables>>

\* A value sent as a parameter: the body's, or NULL when the body has none.
OrNull(value) == IF value = Absent THEN "null" ELSE value

\* COALESCE(:value, column)
Coalesce(value, column) == IF value = Absent THEN column ELSE value

\* The row after the UPDATE the handler chooses: all of email, name and role
\* given; else a password given; else the COALESCE form.
UserUpdateRow(row, data) ==
  IF data.email # Absent /\ data.name # Absent /\ data.role # Absent
  THEN [row EXCEPT !.email = data.email, !.name = data.name, !.role = data.role,
                   !.division_id = OrNull(data.division_id),
                   !.spending_limit_cents = data.spending_limit_cents,
                   !.is_active = OrNull(data.is_active)]
  ELSE IF data.password # Absent
  THEN [row EXCEPT !.password_hash = hashPassword(data.password)]
  ELSE [row EXCEPT !.name = Coalesce(data.name, @),
                   !.email = Coalesce(data.email, @),
                   !.role = Coalesce(data.role, @),
                   !.division_id = OrNull(data.division_id),
                   !.spending_limit_cents =
                      IF data.spending_limit_cents = NoCents THEN @
                      ELSE data.spending_limit_cents,
                   !.is_active = Coalesce(data.is_active, @)]

\* The INSERT or UPDATE of a users row throws: the email is UNIQUE over all
\* rows, deleted ones included, and division_id references divisions.
UsersRowRejected(id, row) ==
  \/ \E u \in UserIds \ {id} : users[u] # NoRow /\ users[u].email = row.email
  \/ row.division_id # "null" /\ ~(row.division_id \in SeedDivisions)

\* UPDATE users ... WHERE id = :id, and the reply.
UserUpdateWrite(q) ==
  /\ reqs[q].op = "user_update"
  /\ reqs[q].pc = "write"
  /\ LET r == reqs[q]
         row == UserUpdateRow(users[r.id], r.body)
     IN IF UsersRowRejected(r.id, row)
        THEN /\ Finish(q, r, Reply(500, "Failed to update user"))
             /\ UNCHANGED users
        ELSE /\ users' = [users EXCEPT ![r.id] = row]
             /\ Finish(q, r, Reply(200, ""))
  /\ UNCHANGED <<tokens, poTables, rbacTables>>

\* ------------------------------------------------------------------------
\* routes/purchase-orders.ts (authRoutes): POST /login, POST /register
\* ------------------------------------------------------------------------
\* The live rows that carry the email; email is UNIQUE, so at most one.
UsersWithEmail(email) ==
  {u \in UserIds : Live(users[u]) /\ users[u].email = email}

FreshUserIds == {u \in UserIds : users[u] = NoRow}
newUserId == CHOOSE u \in FreshUserIds : \A u2 \in FreshUserIds : u <= u2

PendingUserInserts ==
  Cardinality({q \in Reqs : reqs[q].op \in {"register", "user_create"}
                            /\ reqs[q].pc # "done"})

\* POST /login: parse, the SELECT of the user by email and the is_active
\* check.  The handler keeps the row it read and waits for comparePassword.
\* The route calls neither requireAuth nor requireRole.
AuthLoginBegin(q, body) ==
  /\ Free(q)
  /\ LET request == [Request("login", NoHeader) EXCEPT !.body = body]
         found == UsersWithEmail(body.email)
         user == users[CHOOSE u \in found : TRUE]
     IN IF found = {}
        THEN Finish(q, request, Reply(401, "Invalid credentials"))
        ELSE IF user.is_active # "true"
        THEN Finish(q, request, Reply(401, "Account is disabled"))
        ELSE reqs' = [reqs EXCEPT ![q] =
                        [request EXCEPT !.existing = user, !.pc = "compare"]]
  /\ UNCHANGED <<tokens, users, poTables, rbacTables>>

\* comparePassword has answered: the password check, the token made from the
\* row the SELECT returned, and the reply.  The store is not read again.
AuthLoginCompare(q) ==
  /\ reqs[q].op = "login"
  /\ reqs[q].pc = "compare"
  /\ LET r == reqs[q]
         user == r.existing
     IN IF ~comparePassword(r.body.password, user.password_hash)
        THEN /\ Finish(q, r, Reply(401, "Invalid credentials"))
             /\ UNCHANGED tokens
        ELSE /\ tokens' = tokens \cup {generateToken(user)}
             /\ Finish(q, [r EXCEPT !.id = user.id], Reply(200, ""))
  /\ UNCHANGED <<users, poTables, rbacTables>>

\* POST /register: parse and the SELECT of the user by email.
AuthRegisterBegin(q, body) ==
  /\ Free(q)
  /\ Cardinality(FreshUserIds) > PendingUserInserts
  /\ LET request == [Request("register", NoHeader) EXCEPT !.body = body]
     IN IF UsersWithEmail(body.email) # {}
        THEN Finish(q, request, Reply(400, "User with this email already exists"))
        ELSE reqs' = [reqs EXCEPT ![q] = [request EXCEPT !.pc = "insert"]]
  /\ UNCHANGED <<tokens, users, poTables, rbacTables>>

\* INSERT INTO users with role 'basic' and spending limit 0, the token of the
\* new user and the 201.
AuthRegisterInsert(q) ==
  /\ reqs[q].op = "register"
  /\ reqs[q].pc = "insert"
  /\ FreshUserIds # {}
  /\ LET r == reqs[q]
         id == newUserId
         row == [id |-> id,
                 email |-> r.body.email,
                 password_hash |-> hashPassword(r.body.password),
                 name |-> IF r.body.name = Absent THEN "null" ELSE r.body.name,
                 role |-> "basic",
                 division_id |-> IF r.body.division_id = Absent THEN "null"
                                 ELSE r.body.division_id,
                 spending_limit_cents |-> 0,
                 is_active |-> "true",
                 deleted_at |-> FALSE]
     IN IF UsersRowRejected(id, row)
        THEN /\ Finish(q, r, Reply(500, "Registration failed"))
             /\ UNCHANGED <<users, tokens>>
        ELSE /\ users' = [users EXCEPT ![id] = row]
             /\ tokens' = tokens \cup {generateToken(row)}
             /\ Finish(q, [r EXCEPT !.id = id], Reply(201, ""))
  /\ UNCHANGED <<poTables, rbacTables>>

\* ------------------------------------------------------------------------
\* routes/users.ts: POST /
\* ------------------------------------------------------------------------
UserCreateRoles == {"admin", "manager"}

\* createUserSchema.parse: role defaults to 'basic', spending_limit_cents to 0.
createUserSchema(body) ==
  [body EXCEPT !.role = IF @ = Absent THEN "basic" ELSE @,
               !.spending_limit_cents = IF @ = NoCents THEN 0 ELSE @]

\* requireAuth, requireRole, parse and the SELECT of the user by email.
UserCreateBegin(q, hdr, body) ==
  /\ Free(q)
  /\ Cardinality(FreshUserIds) > PendingUserInserts
  /\ LET request == Request("user_create", hdr)
         auth == requireAuth(hdr)
         gate == IF auth.threw THEN auth ELSE requireRole(auth.user, UserCreateRoles)
         data == createUserSchema(body)
         parsed == [request EXCEPT !.user = auth.user, !.body = data]
     IN IF auth.threw \/ gate.threw
        THEN Finish(q, request, Reply(500, "Failed to create user"))
        ELSE IF UsersWithEmail(data.email) # {}
        THEN Finish(q, parsed, Reply(400, "User with this email already exists"))
        ELSE reqs' = [reqs EXCEPT ![q] =
                        [parsed EXCEPT !.pc = IF data.division_id # Absent
                                              THEN "division" ELSE "insert"]]
  /\ UNCHANGED <<tokens, users, poTables, rbacTables>>

\* SELECT id FROM divisions WHERE id = :division_id AND deleted_at IS NULL
UserCreateDivision(q) ==
  /\ reqs[q].op = "user_create"
  /\ reqs[q].pc = "division"
  /\ IF ~(reqs[q].body.division_id \in SeedDivisions)
     THEN Finish(q, reqs[q], Reply(400, "Division not found"))
     ELSE reqs' = [reqs EXCEPT ![q].pc = "insert"]
  /\ UNCHANGED <<tokens, users, poTables, rbacTables>>

\* hashPassword, withCreateAudit, INSERT INTO users and the 201.
UserCreateInsert(q) ==
  /\ reqs[q].op = "user_create"
  /\ reqs[q].pc = "insert"
  /\ FreshUserIds # {}
  /\ LET r == reqs[q]
         id == newUserId
         row == [id |-> id,
                 email |-> r.body.email,
                 password_hash |-> hashPassword(r.body.password),
                 name |-> OrNull(r.body.name),
                 role |-> r.body.role,
                 division_id |-> OrNull(r.body.division_id),
                 spending_limit_cents |-> r.body.spending_limit_cents,
                 is_active |-> "true",
                 deleted_at |-> FALSE]
     IN IF UsersRowRejected(id, row)
        THEN /\ Finish(q, r, Reply(500, "Failed to create user"))
             /\ UNCHANGED users
        ELSE /\ users' = [users EXCEPT ![id] = row]
             /\ Finish(q, [r EXCEPT !.id = id], Reply(201, ""))
  /\ UNCHANGED <<tokens, poTables, rbacTables>>

\* ------------------------------------------------------------------------
\* routes/suppliers.ts: POST /, PUT /:id
\* ------------------------------------------------------------------------
FreshSupplierIds == {s \in SupplierIds : suppliers[s] = NoRow}
newSupplierId == CHOOSE s \in FreshSupplierIds : \A s2 \in FreshSupplierIds : s <= s2

\* The live rows other than row id that carry the name.
SuppliersNamed(name, id) ==
  {s \in SupplierIds \ {id} : Live(suppliers[s]) /\ suppliers[s].name = name}

\* POST /: requireAuth, requireRole, parse and the SELECT by name.
SupplierCreateBegin(q, hdr, body) ==
  /\ Free(q)
  /\ Cardinality(FreshSupplierIds) >
       Cardinality({q2 \in Reqs : reqs[q2].op = "supplier_create"
                                  /\ reqs[q2].pc = "insert"})
  /\ LET request == Request("supplier_create", hdr)
         auth == requireAuth(hdr)
         gate == IF auth.threw THEN auth
                 ELSE requireRole(auth.user, SupplierWriteRoles)
         parsed == [request EXCEPT !.user = auth.user, !.body = body]
     IN IF auth.threw \/ gate.threw
        THEN Finish(q, request, Reply(500, "Failed to create supplier"))
        ELSE IF SuppliersNamed(body.name, 0) # {}
        THEN Finish(q, parsed, Reply(400, "Supplier name already exists"))
        ELSE reqs' = [reqs EXCEPT ![q] = [parsed EXCEPT !.pc = "insert"]]
  /\ UNCHANGED <<tokens, users, poTables, rbacTables>>

\* withCreateAudit, INSERT INTO suppliers and the 201.
SupplierCreateInsert(q) ==
  /\ reqs[q].op = "supplier_create"
  /\ reqs[q].pc = "insert"
  /\ FreshSupplierIds # {}
  /\ LET r == reqs[q]
         id == newSupplierId
     IN /\ suppliers' = [suppliers EXCEPT ![id] =
                           [name |-> r.body.name,
                            contact_email |-> OrNull(r.body.contact_email),
                            deleted_at |-> FALSE]]
        /\ Finish(q, [r EXCEPT !.id = id], Reply(201, ""))
  /\ UNCHANGED <<tokens, users, rbacTables, purchase_orders, purchase_order_items>>

\* PUT /:id: requireAuth, requireRole, parse and the SELECT of the supplier.
SupplierUpdateBegin(q, hdr, id, body) ==
  /\ Free(q)
  /\ LET request == Request("supplier_update", hdr)
         auth == requireAuth(hdr)
         gate == IF auth.threw THEN auth
                 ELSE requireRole(auth.user, SupplierWriteRoles)
         read == [request EXCEPT !.user = auth.user, !.id = id, !.body = body]
         existingSupplier == suppliers[id]
     IN IF auth.threw \/ gate.threw
        THEN Finish(q, request, Reply(500, "Failed to update supplier"))
        ELSE IF ~Live(existingSupplier)
        THEN Finish(q, read, Reply(404, "Supplier not found"))
        ELSE reqs' = [reqs EXCEPT ![q] =
                        [read EXCEPT !.existing = existingSupplier,
                                     !.pc = IF body.name # Absent
                                               /\ body.name # existingSupplier.name
                                            THEN "name" ELSE "write"]]
  /\ UNCHANGED <<tokens, users, poTables, rbacTables>>

\* SELECT id FROM suppliers WHERE name = :name AND id != :id AND deleted_at IS
\* NULL
SupplierUpdateName(q) ==
  /\ reqs[q].op = "supplier_update"
  /\ reqs[q].pc = "name"
  /\ IF SuppliersNamed(reqs[q].body.name, reqs[q].id) # {}
     THEN Finish(q, reqs[q], Reply(400, "Supplier name already exists"))
     ELSE reqs' = [reqs EXCEPT ![q].pc = "write"]
  /\ UNCHANGED <<tokens, users, poTables, rbacTables>>

\* UPDATE suppliers SET name = COALESCE(:name, name), contact_email = the
\* body's or NULL, ... WHERE id = :id, and the 200.
SupplierUpdateWrite(q) ==
  /\ reqs[q].op = "supplier_update"
  /\ reqs[q].pc = "write"
  /\ LET r == reqs[q]
     IN /\ suppliers' = [suppliers EXCEPT ![r.id] =
                           IF @ = NoRow THEN @
                           ELSE [@ EXCEPT !.name = Coalesce(r.body.name, @),
                                          !.contact_email = OrNull(r.body.contact_email)]]
        /\ Finish(q, r, Reply(200, ""))
  /\ UNCHANGED <<tokens, users, rbacTables, purchase_orders, purchase_order_items>>

\* ------------------------------------------------------------------------
\* scripts/setup-permissions.ts
\* ------------------------------------------------------------------------
\* permissionCategories, flattened in the order the script walks them: each
\* permission with its category key as resource.
SetupPermissionRows ==
  <<Permission("users:read", "View users and user profiles", "users", "read"),
    Permission("users:write", "Create and update user accounts", "users", "write"),
    Permission("users:delete", "Delete or deactivate users", "users", "delete"),
    Permission("users:impersonate", "Login as another user", "users", "impersonate"),
    Permission("users:roles", "Assign roles to users", "users", "roles"),
    Permission("roles:read", "View roles and permissions", "roles", "read"),
    Permission("roles:write", "Create and update roles", "roles", "write"),
    Permission("roles:delete", "Delete roles", "roles", "delete"),
    Permission("roles:assign", "Assign permissions to roles", "roles", "assign"),
    Permission("pos:read", "View purchase orders", "pos", "read"),
    Permission("pos:write", "Create and update purchase orders", "pos", "write"),
    Permission("pos:delete", "Delete purchase orders", "pos", "delete"),
    Permission("pos:submit", "Submit purchase orders for approval", "pos", "submit"),
    Permission("pos:approve", "Approve purchase orders", "pos", "approve"),
    Permission("pos:reject", "Reject purchase orders", "pos", "reject"),
    Permission("pos:cancel", "Cancel purchase orders", "pos", "cancel"),
    Permission("pos:match", "Match invoices to purchase orders", "pos", "match"),
    Permission("suppliers:read", "View supplier information", "suppliers", "read"),
    Permission("suppliers:write", "Create and update suppliers", "suppliers", "write"),
    Permission("suppliers:delete", "Delete or deactivate suppliers", "suppliers", "delete"),
    Permission("deliveries:read", "View delivery records", "deliveries", "read"),
    Permission("deliveries:write", "Create and update deliveries", "deliveries", "write"),
    Permission("deliveries:delete", "Delete delivery records", "deliveries", "delete"),
    Permission("deliveries:receive", "Mark items as received", "deliveries", "receive"),
    Permission("invoices:read", "View invoices", "invoices", "read"),
    Permission("invoices:write", "Create and update invoices", "invoices", "write"),
    Permission("invoices:delete", "Delete invoices", "invoices", "delete"),
    Permission("invoices:approve", "Approve invoices for payment", "invoices", "approve"),
    Permission("invoices:pay", "Mark invoices as paid", "invoices", "pay"),
    Permission("divisions:read", "View organizational divisions", "divisions", "read"),
    Permission("divisions:write", "Create and update divisions", "divisions", "write"),
    Permission("divisions:delete", "Delete divisions", "divisions", "delete"),
    Permission("delivery_addresses:read", "View delivery addresses", "delivery_addresses", "read"),
    Permission("delivery_addresses:write", "Create and update delivery addresses", "delivery_addresses", "write"),
    Permission("delivery_addresses:delete", "Delete delivery addresses", "delivery_addresses", "delete"),
    Permission("files:upload", "Upload files and attachments", "files", "upload"),
    Permission("files:download", "Download files and attachments", "files", "download"),
    Permission("files:delete", "Delete files and attachments", "files", "delete"),
    Permission("files:manage", "Manage file storage and organization", "files", "manage"),
    Permission("admin:overview", "View system overview and dashboard", "admin", "overview"),
    Permission("admin:audit", "View audit logs and system activity", "admin", "audit"),
    Permission("admin:export", "Export system data", "admin", "export"),
    Permission("admin:config", "Modify system configuration", "admin", "config"),
    Permission("admin:maintenance", "Perform system maintenance", "admin", "maintenance"),
    Permission("reports:view", "View standard reports", "reports", "view"),
    Permission("reports:create", "Create custom reports", "reports", "create"),
    Permission("reports:export", "Export reports in various formats", "reports", "export"),
    Permission("reports:schedule", "Schedule automated reports", "reports", "schedule")>>

\* roleDefinitions: every role is a system role; permissions is the list of
\* permission names in the order the script assigns them.
SetupRoleRows ==
  <<[name |-> "Super Admin",
     description |-> "Full system access with all permissions",
     is_system_role |-> TRUE,
     permissions |->
       <<"users:read", "users:write", "users:delete", "users:impersonate",
         "users:roles", "roles:read", "roles:write", "roles:delete",
         "roles:assign", "pos:read", "pos:write", "pos:delete",
         "pos:submit", "pos:approve", "pos:reject", "pos:cancel",
         "pos:match", "suppliers:read", "suppliers:write",
         "suppliers:delete", "deliveries:read", "deliveries:write",
         "deliveries:delete", "deliveries:receive", "invoices:read",
         "invoices:write", "invoices:delete", "invoices:approve",
         "invoices:pay", "divisions:read", "divisions:write",
         "divisions:delete", "delivery_addresses:read",
         "delivery_addresses:write", "delivery_addresses:delete",
         "files:upload", "files:download", "files:delete", "files:manage",
         "admin:overview", "admin:audit", "admin:export", "admin:config",
         "admin:maintenance", "reports:view", "reports:create",
         "reports:export", "reports:schedule">>],
    [name |-> "Admin",
     description |-> "Administrative access to most system functions",
     is_system_role |-> TRUE,
     permissions |->
       <<"users:read", "users:write", "users:roles", "roles:read",
         "roles:write", "roles:assign", "pos:read", "pos:write",
         "pos:delete", "pos:submit", "pos:approve", "pos:reject",
         "pos:cancel", "pos:match", "suppliers:read", "suppliers:write",
         "suppliers:delete", "deliveries:read", "deliveries:write",
         "deliveries:delete", "deliveries:receive", "invoices:read",
         "invoices:write", "invoices:delete", "invoices:approve",
         "invoices:pay", "divisions:read", "divisions:write",
         "delivery_addresses:read", "delivery_addresses:write",
         "delivery_addresses:delete", "files:upload", "files:download",
         "files:delete", "files:manage", "admin:overview", "admin:audit",
         "admin:export", "reports:view", "reports:create", "reports:export",
         "reports:schedule">>],
    [name |-> "Manager",
     description |-> "Management level access for department operations",
     is_system_role |-> TRUE,
     permissions |->
       <<"users:read", "pos:read", "pos:write", "pos:submit", "pos:approve",
         "pos:reject", "pos:match", "suppliers:read", "suppliers:write",
         "deliveries:read", "deliveries:write", "deliveries:receive",
         "invoices:read", "invoices:write", "invoices:approve",
         "divisions:read", "delivery_addresses:read",
         "delivery_addresses:write", "files:upload", "files:download",
         "files:delete", "admin:overview", "reports:view", "reports:create",
         "reports:export">>],
    [name |-> "Senior User",
     description |-> "Advanced user with extended permissions",
     is_system_role |-> TRUE,
     permissions |->
       <<"users:read", "pos:read", "pos:write", "pos:submit", "pos:match",
         "suppliers:read", "deliveries:read", "deliveries:write",
         "deliveries:receive", "invoices:read", "invoices:write",
         "divisions:read", "delivery_addresses:read",
         "delivery_addresses:write", "files:upload", "files:download",
         "reports:view", "reports:export">>],
    [name |-> "Basic User",
     description |-> "Standard user access for daily operations",
     is_system_role |-> TRUE,
     permissions |->
       <<"pos:read", "pos:write", "pos:submit", "suppliers:read",
         "deliveries:read", "deliveries:receive", "invoices:read",
         "divisions:read", "delivery_addresses:read", "files:upload",
         "files:download", "reports:view">>],
    [name |-> "Read Only",
     description |-> "View-only access for auditing and reporting",
     is_system_role |-> TRUE,
     permissions |->
       <<"users:read", "roles:read", "pos:read", "suppliers:read",
         "deliveries:read", "invoices:read", "divisions:read",
         "delivery_addresses:read", "files:download", "admin:overview",
         "reports:view">>]>>

\* The script's exit: 0 when setupPermissions returns, 1 when it throws.
SetupReturned == Reply(0, "")
SetupThrew == Reply(1, "Permission setup failed")

\* The place of the script in its loops: the permission, the role and the
\* permission name of the role it is at.
SetupAt(permission, role, assigned) ==
  [permission |-> permission, role |-> role, assigned |-> assigned]

\* setupPermissions is called: SELECT 1.
SetupPermissionsBegin(q) ==
  /\ Free(q)
  /\ reqs' = [reqs EXCEPT ![q] =
                [Request("setup_permissions", NoHeader)
                   EXCEPT !.body = SetupAt(1, 1, 1), !.pc = "permission"]]
  /\ UNCHANGED <<tokens, users, poTables, rbacTables>>

\* The step after the permission at hand: the next permission, or the roles.
SetupNextPermission(r) ==
  IF r.body.permission < Len(SetupPermissionRows)
  THEN [r EXCEPT !.body.permission = @ + 1, !.pc = "permission"]
  ELSE [r EXCEPT !.pc = "role"]

\* SELECT id FROM permissions WHERE name = :name (deleted rows included)
SetupPermissionSelect(q) ==
  /\ reqs[q].op = "setup_permissions"
  /\ reqs[q].pc = "permission"
  /\ LET r == reqs[q]
         permission == SetupPermissionRows[r.body.permission]
         existing == {p \in PermIds : /\ permissions[p] # NoRow
                                      /\ permissions[p].name = permission.name}
     IN reqs' = [reqs EXCEPT ![q] =
                   IF existing = {} THEN [r EXCEPT !.pc = "permission_insert"]
                   ELSE SetupNextPermission(r)]
  /\ UNCHANGED <<tokens, users, poTables, rbacTables>>

\* INSERT INTO permissions.  The name column is UNIQUE over all rows: the
\* insert of a name that was taken after the SELECT throws.
SetupPermissionInsert(q) ==
  /\ reqs[q].op = "setup_permissions"
  /\ reqs[q].pc = "permission_insert"
  /\ LET r == reqs[q]
         permission == SetupPermissionRows[r.body.permission]
     IN IF \E p \in PermIds : /\ permissions[p] # NoRow
                              /\ permissions[p].name = permission.name
        THEN /\ Finish(q, r, SetupThrew)
             /\ UNCHANGED permissions
        ELSE /\ FreshPermIds # {}
             /\ permissions' = [permissions EXCEPT ![newPermId] = permission]
             /\ reqs' = [reqs EXCEPT ![q] = SetupNextPermission(r)]
  /\ UNCHANGED <<tokens, users, poTables, roles, role_permissions, user_roles>>

\* The step after the role at hand: the next role, or the closing query.
SetupNextRole(r) ==
  IF r.body.role < Len(SetupRoleRows)
  THEN [r EXCEPT !.body.role = @ + 1, !.body.assigned = 1, !.pc = "role"]
  ELSE [r EXCEPT !.pc = "stats"]

\* SELECT id FROM roles WHERE name = :name AND deleted_at IS NULL
SetupRoleSelect(q) ==
  /\ reqs[q].op = "setup_permissions"
  /\ reqs[q].pc = "role"
  /\ LET r == reqs[q]
         role == SetupRoleRows[r.body.role]
         existing == {id \in RoleIds : Live(roles[id]) /\ roles[id].name = role.name}
     IN reqs' = [reqs EXCEPT ![q] =
                   IF existing = {} THEN [r EXCEPT !.pc = "role_insert"]
                   ELSE SetupNextRole(r)]
  /\ UNCHANGED <<tokens, users, poTables, rbacTables>>

\* INSERT INTO roles ... RETURNING id.  The name column is UNIQUE over all
\* rows, deleted ones included: the insert of such a name throws.
SetupRoleInsert(q) ==
  /\ reqs[q].op = "setup_permissions"
  /\ reqs[q].pc = "role_insert"
  /\ LET r == reqs[q]
         role == SetupRoleRows[r.body.role]
         id == newRoleId
     IN IF \E r2 \in RoleIds : roles[r2] # NoRow /\ roles[r2].name = role.name
        THEN /\ Finish(q, r, SetupThrew)
             /\ UNCHANGED roles
        ELSE /\ FreshRoleIds # {}
             /\ roles' = [roles EXCEPT ![id] =
                            [name |-> role.name,
                             description |-> role.description,
                             is_system_role |-> role.is_system_role,
                             deleted_at |-> FALSE]]
             /\ reqs' = [reqs EXCEPT ![q] =
                           IF Len(role.permissions) = 0
                           THEN SetupNextRole([r EXCEPT !.id = id])
                           ELSE [r EXCEPT !.id = id, !.body.assigned = 1,
                                          !.pc = "assign"]]
  /\ UNCHANGED <<tokens, users, poTables, permissions, role_permissions, user_roles>>

\* The step after the permission name at hand: the next name of the role, or
\* the next role.
SetupNextAssign(r) ==
  IF r.body.assigned < Len(SetupRoleRows[r.body.role].permissions)
  THEN [r EXCEPT !.body.assigned = @ + 1, !.pc = "assign"]
  ELSE SetupNextRole(r)

\* SELECT id FROM permissions WHERE name = :permissionName (deleted rows
\* included); a name without a row is skipped.
SetupAssignSelect(q) ==
  /\ reqs[q].op = "setup_permissions"
  /\ reqs[q].pc = "assign"
  /\ LET r == reqs[q]
         permissionName == SetupRoleRows[r.body.role].permissions[r.body.assigned]
         found == {p \in PermIds : /\ permissions[p] # NoRow
                                   /\ permissions[p].name = permissionName}
     IN reqs' = [reqs EXCEPT ![q] =
                   IF found = {} THEN SetupNextAssign(r)
                   ELSE [r EXCEPT !.existing = CHOOSE p \in found : TRUE,
                                  !.pc = "assign_insert"]]
  /\ UNCHANGED <<tokens, users, poTables, rbacTables>>

\* INSERT INTO role_permissions.  (role_id, permission_id) is UNIQUE over all
\* rows: the insert of a pair that has a row throws.
SetupAssignInsert(q) ==
  /\ reqs[q].op = "setup_permissions"
  /\ reqs[q].pc = "assign_insert"
  /\ LET r == reqs[q]
     IN IF role_permissions[r.id, r.existing] # "none"
        THEN /\ Finish(q, r, SetupThrew)
             /\ UNCHANGED role_permissions
        ELSE /\ role_permissions' =
                  [role_permissions EXCEPT ![r.id, r.existing] = "live"]
             /\ reqs' = [reqs EXCEPT ![q] = SetupNextAssign(r)]
  /\ UNCHANGED <<tokens, users, poTables, roles, permissions, user_roles>>

\* The closing SELECT of the roles with their permission counts, which the
\* script prints; setupPermissions returns.
SetupRoleStats(q) ==
  /\ reqs[q].op = "setup_permissions"
  /\ reqs[q].pc = "stats"
  /\ Finish(q, reqs[q], SetupReturned)
  /\ UNCHANGED <<tokens, users, poTables, rbacTables>>

\* ------------------------------------------------------------------------
\* The store after seedDatabase has run on a store that takes its statements;
\* no token has been issued.
\* ------------------------------------------------------------------------
Init ==
  /\ users = SeedUsers
  /\ suppliers = SeedSuppliers
  /\ purchase_orders = [p \in POIds |-> NoRow]
  /\ purchase_order_items = [p \in POIds |-> 0]
  /\ roles = SeedRoles
  /\ permissions = SeedPermissions
  /\ role_permissions = SeedRolePermissions
  /\ user_roles = SeedUserRoles
  /\ tokens = {}
  /\ reqs = [q \in Reqs |-> Idle]

\* ------------------------------------------------------------------------
\* The callers of the specifications.  The admin is the seeded user; the
\* manager is a user the admin creates through POST /users; the basic user
\* registers.  A caller holds a token after login or register.
\* ------------------------------------------------------------------------
AdminLogin == [email |-> "admin@hoganro.com", password |-> "admin123"]

ManagerLogin == [email |-> "manager@hoganro.com", password |-> "manager123"]

BasicLogin == [email |-> "basic@hoganro.com", password |-> "basic123"]

ManagerBody ==
  [email |-> ManagerLogin.email, password |-> ManagerLogin.password,
   name |-> "Manager", role |-> "manager", division_id |-> "Engineering",
   spending_limit_cents |-> 1]

BasicBody ==
  [email |-> BasicLogin.email, password |-> BasicLogin.password,
   name |-> Absent, division_id |-> Absent]

AdminHeaders == HeadersOf("admin")
ManagerHeaders == HeadersOf("manager")

\* The headers whose token verifies.
RbacHeaders == {h \in Headers : extractUserFromRequest(h) # Null}

\* The headers that pass the gates of the purchase-order routes.
Authorized == {h \in Headers : extractUserFromRequest(h) # Null
                               /\ extractUserFromRequest(h).role \in PoStatusRoles}

\* ------------------------------------------------------------------------
\* Spec: the purchase-order lifecycle, one request at a time.  The admin
\* drafts orders; any caller asks for any status change.
\* ------------------------------------------------------------------------
\* The drafts are numbered consecutively.
DraftBodies ==
  [po_number : {Cardinality(POIds \ FreshPOIds) + 1}, supplier_id : {1},
   status : {"draft"}, total_amount : {0}, items : {1}]

Lifecycle(q) ==
  \/ AuthLoginBegin(q, AdminLogin)
  \/ AuthLoginCompare(q)
  \/ AuthRegisterBegin(q, BasicBody)
  \/ AuthRegisterInsert(q)
  \/ \E id \in POIds, hdr \in Headers, status \in Statuses :
       PoStatusBegin(q, hdr, id, status)
  \/ PoStatusUpdate(q)
  \/ \E hdr \in AdminHeaders, body \in DraftBodies : PoCreateBegin(q, hdr, body)
  \/ PoCreateSupplier(q)
  \/ PoCreateInsert(q)
  \/ PoCreateItem(q)

Next == Lifecycle(1)

Spec == Init /\ [][Next]_vars

\* ------------------------------------------------------------------------
\* SpecRace: the lifecycle of one order under concurrent requests of the
\* admin.
\* ------------------------------------------------------------------------
NextRace ==
  \E q \in Reqs :
    \/ tokens = {} /\ AuthLoginBegin(q, AdminLogin)
    \/ AuthLoginCompare(q)
    \/ \E hdr \in Authorized, status \in Statuses : PoStatusBegin(q, hdr, 1, status)
    \/ PoStatusUpdate(q)
    \/ /\ purchase_orders[1] = NoRow
       /\ \A q2 \in Reqs : reqs[q2].op # "po_create"
       /\ \E hdr \in AdminHeaders, body \in DraftBodies : PoCreateBegin(q, hdr, body)
    \/ PoCreateSupplier(q)
    \/ PoCreateInsert(q)
    \/ PoCreateItem(q)

SpecRace == Init /\ [][NextRace]_vars

\* ------------------------------------------------------------------------
\* SpecLifecycle: the lifecycle, one request at a time.  The manager drafts
\* the orders; the admin and the manager ask for the status changes.
\* ------------------------------------------------------------------------
NextLifecycle ==
  \/ \E body \in {AdminLogin, ManagerLogin} : AuthLoginBegin(1, body)
  \/ AuthLoginCompare(1)
  \/ \E hdr \in AdminHeaders : UserCreateBegin(1, hdr, ManagerBody)
  \/ UserCreateDivision(1)
  \/ UserCreateInsert(1)
  \/ \E id \in POIds, hdr \in Authorized, status \in Statuses :
       PoStatusBegin(1, hdr, id, status)
  \/ PoStatusUpdate(1)
  \/ \E hdr \in ManagerHeaders, body \in DraftBodies : PoCreateBegin(1, hdr, body)
  \/ PoCreateSupplier(1)
  \/ PoCreateInsert(1)
  \/ PoCreateItem(1)

SpecLifecycle == Init /\ [][NextLifecycle]_vars

\* ------------------------------------------------------------------------
\* SpecStore: the lifecycle, one request at a time, by the admin and the
\* manager, on a store that enforces the CHECK constraint on
\* purchase_orders.status.
\* ------------------------------------------------------------------------
NextStore ==
  \/ \E body \in {AdminLogin, ManagerLogin} : AuthLoginBegin(1, body)
  \/ AuthLoginCompare(1)
  \/ \E hdr \in AdminHeaders : UserCreateBegin(1, hdr, ManagerBody)
  \/ UserCreateDivision(1)
  \/ UserCreateInsert(1)
  \/ \E id \in POIds, hdr \in Authorized, status \in Statuses :
       PoStatusBegin(1, hdr, id, status)
  \/ PoStatusUpdateStore(1)
  \/ \E hdr \in Authorized, body \in DraftBodies : PoCreateBegin(1, hdr, body)
  \/ PoCreateSupplier(1)
  \/ PoCreateInsert(1)
  \/ PoCreateItem(1)

SpecStore == Init /\ [][NextStore]_vars

\* ------------------------------------------------------------------------
\* SpecCreate: purchase-order creation by any caller, one request at a time;
\* the manager's spending limit is 1.
\* ------------------------------------------------------------------------
\* Bodies with the seeded supplier 1 or a supplier id that has no row, and a
\* status that is draft or not.
CreateBodies ==
  [po_number : PoNumbers, supplier_id : {1, MaxSupplier},
   status : {"draft", "approved"}, total_amount : Amounts, items : ItemCounts]

NextCreate ==
  \/ \E body \in {AdminLogin, ManagerLogin} : AuthLoginBegin(1, body)
  \/ AuthLoginCompare(1)
  \/ \E hdr \in AdminHeaders : UserCreateBegin(1, hdr, ManagerBody)
  \/ UserCreateDivision(1)
  \/ UserCreateInsert(1)
  \/ \E hdr \in Headers, body \in CreateBodies : PoCreateBegin(1, hdr, body)
  \/ PoCreateSupplier(1)
  \/ PoCreateInsert(1)
  \/ PoCreateItem(1)

SpecCreate == Init /\ [][NextCreate]_vars

\* ------------------------------------------------------------------------
\* SpecNumbers: drafts with any po_number, created by any caller, one request
\* at a time.  SpecNumbersRace: the same drafts created by the admin over
\* concurrent connections.
\* ------------------------------------------------------------------------
NumberBodies ==
  [po_number : PoNumbers, supplier_id : SupplierIds, status : {"draft"},
   total_amount : {0}, items : ItemCounts]

NextNumbers ==
  \/ AuthLoginBegin(1, AdminLogin)
  \/ AuthLoginCompare(1)
  \/ \E hdr \in Headers, body \in NumberBodies : PoCreateBegin(1, hdr, body)
  \/ PoCreateSupplier(1)
  \/ PoCreateInsert(1)
  \/ PoCreateItem(1)

SpecNumbers == Init /\ [][NextNumbers]_vars

NextNumbersRace ==
  \E q \in Reqs :
    \/ tokens = {} /\ AuthLoginBegin(q, AdminLogin)
    \/ AuthLoginCompare(q)
    \/ \E hdr \in Authorized, body \in NumberBodies : PoCreateBegin(q, hdr, body)
    \/ PoCreateSupplier(q)
    \/ PoCreateInsert(q)
    \/ PoCreateItem(q)

SpecNumbersRace == Init /\ [][NextNumbersRace]_vars

\* ------------------------------------------------------------------------
\* SpecSpending: canCreatePurchaseOrder called with a user of any role and
\* limit and with any amount; the connection holds the call and its result.
\* ------------------------------------------------------------------------
Cents == 0..MaxCents

CanCreateCall(q, user, totalCents) ==
  /\ reqs' = [reqs EXCEPT ![q] =
                [op |-> "can_create", pc |-> "done", user |-> user,
                 totalCents |-> totalCents,
                 result |-> canCreatePurchaseOrder(user, totalCents)]]
  /\ UNCHANGED <<tokens, users, poTables, rbacTables>>

NextSpending ==
  \E role \in UserRoles, limit \in Cents, totalCents \in Cents :
    CanCreateCall(1, [role |-> role, spending_limit_cents |-> limit], totalCents)

SpecSpending == Init /\ [][NextSpending]_vars

\* ------------------------------------------------------------------------
\* SpecGate: the permission gate called for any user and permission name,
\* with the store answering the lookup or failing it; the connection holds
\* the call and its results.  pos:manage is a name no permission carries.
\* ------------------------------------------------------------------------
GatePermissions == {"pos:read", "pos:write", "pos:manage"}

RequirePermissionCall(q, userId, permission, queryFails) ==
  /\ reqs' = [reqs EXCEPT ![q] =
                [op |-> "require_permission", pc |-> "done", userId |-> userId,
                 permission |-> permission, queryFails |-> queryFails,
                 has |-> hasPermissionTry(userId, permission, queryFails),
                 result |-> requirePermissionTry(userId, permission, queryFails)]]
  /\ UNCHANGED <<tokens, users, poTables, rbacTables>>

NextGate ==
  \E q \in Reqs, userId \in UserIds, permission \in GatePermissions,
     queryFails \in BOOLEAN :
    RequirePermissionCall(q, userId, permission, queryFails)

SpecGate == Init /\ [][NextGate]_vars

\* ------------------------------------------------------------------------
\* SpecToken: a token is issued to a user record (as login and register do)
\* and presented in a Bearer header; the connection holds the record and the
\* principal the request is given.
\* ------------------------------------------------------------------------
TokenUsers ==
  [id : UserIds, role : UserRoles, division_id : {"Engineering", "Finance"},
   spending_limit_cents : Cents]

TokenRoundTrip(q, user) ==
  /\ reqs' = [reqs EXCEPT ![q] =
                [op |-> "token", pc |-> "done", user |-> user,
                 principal |-> extractUserFromRequest(Bearer(generateToken(user)))]]
  /\ UNCHANGED <<tokens, users, poTables, rbacTables>>

NextToken == \E user \in TokenUsers : TokenRoundTrip(1, user)

SpecToken == Init /\ [][NextToken]_vars

\* ------------------------------------------------------------------------
\* SpecUsers: a user registers and logs in; users are created and the
\* registered user is updated, one request at a time, with the tokens of
\* users who are not administrators.
\* ------------------------------------------------------------------------
NonAdminHeaders == HeadersOf("basic") \cup HeadersOf("manager")

UserUpdateBodies ==
  [email : {Absent, "moved@hoganro.com"},
   password : {Absent, "secret"},
   name : {Absent, "renamed"}, role : {Absent, "manager"},
   division_id : {Absent}, spending_limit_cents : {NoCents, MaxCents},
   is_active : {Absent}]

UserCreateBodies ==
  [email : {"second@hoganro.com"}, password : {"second123"}, name : {Absent},
   role : {Absent}, division_id : {Absent, "Finance"},
   spending_limit_cents : {NoCents}]

NextUsers ==
  \/ AuthRegisterBegin(1, BasicBody)
  \/ AuthRegisterInsert(1)
  \/ AuthLoginBegin(1, BasicLogin)
  \/ AuthLoginCompare(1)
  \/ \E hdr \in NonAdminHeaders, body \in UserCreateBodies :
       UserCreateBegin(1, hdr, body)
  \/ UserCreateDivision(1)
  \/ UserCreateInsert(1)
  \/ \E hdr \in NonAdminHeaders, body \in UserUpdateBodies :
       UserUpdateBegin(1, hdr, 2, body)
  \/ UserUpdateEmail(1)
  \/ UserUpdateWrite(1)

SpecUsers == Init /\ [][NextUsers]_vars

\* ------------------------------------------------------------------------
\* SpecSuppliers: purchase-order creation, status changes and supplier
\* creation, update and deletion by the admin, one request at a time.
\* ------------------------------------------------------------------------
SupplierCreateBodies ==
  [name : {"Tech Solutions Inc", "Acme"}, contact_email : {Absent}]

SupplierUpdateBodies ==
  [name : {Absent, "Acme"}, contact_email : {Absent, "sales@acme.com"}]

NextSuppliers ==
  \/ AuthLoginBegin(1, AdminLogin)
  \/ AuthLoginCompare(1)
  \/ \E hdr \in AdminHeaders, id \in POIds, status \in Statuses :
       PoStatusBegin(1, hdr, id, status)
  \/ PoStatusUpdate(1)
  \/ \E hdr \in AdminHeaders, body \in DraftBodies : PoCreateBegin(1, hdr, body)
  \/ PoCreateSupplier(1)
  \/ PoCreateInsert(1)
  \/ PoCreateItem(1)
  \/ \E hdr \in AdminHeaders, id \in SupplierIds : SupplierDeleteBegin(1, hdr, id)
  \/ SupplierDeleteCount(1)
  \/ SupplierDeleteSupplier(1)
  \/ \E hdr \in AdminHeaders, body \in SupplierCreateBodies :
       SupplierCreateBegin(1, hdr, body)
  \/ SupplierCreateInsert(1)
  \/ \E hdr \in AdminHeaders, body \in SupplierUpdateBodies :
       SupplierUpdateBegin(1, hdr, 2, body)
  \/ SupplierUpdateName(1)
  \/ SupplierUpdateWrite(1)

SpecSuppliers == Init /\ [][NextSuppliers]_vars

\* ------------------------------------------------------------------------
\* SpecRbac: role and user administration, one request at a time, by the
\* admin and the manager.
\* ------------------------------------------------------------------------
NextRbac ==
  \/ \E body \in {AdminLogin, ManagerLogin} : AuthLoginBegin(1, body)
  \/ AuthLoginCompare(1)
  \/ \E hdr \in RbacHeaders : UserCreateBegin(1, hdr, ManagerBody)
  \/ UserCreateDivision(1)
  \/ UserCreateInsert(1)
  \/ \E hdr \in RbacHeaders, id \in RoleIds : RoleGet(1, hdr, id)
  \/ \E hdr \in RbacHeaders, body \in RoleBodies : RoleCreateBegin(1, hdr, body)
  \/ RoleCreateValidate(1)
  \/ RoleCreateInsert(1)
  \/ RoleCreateAssign(1)
  \/ RoleCreateFetch(1)
  \/ \E hdr \in RbacHeaders, id \in RoleIds : RoleDeleteBegin(1, hdr, id)
  \/ RoleDeleteCount(1)
  \/ RoleDeleteRole(1)
  \/ RoleDeleteUnassign(1)
  \/ \E hdr \in RbacHeaders : UserDeleteBegin(1, hdr, 2)
  \/ UserDeleteUser(1)

SpecRbac == Init /\ [][NextRbac]_vars

\* ------------------------------------------------------------------------
\* SpecRoleGate: every route that calls requireRole, one request at a time,
\* called with the token of the admin, of a manager the admin or a manager
\* created through POST /users, and of a basic user who registered.
\* ------------------------------------------------------------------------
GateRoleBody ==
  [name |-> "Clerk", is_system_role |-> FALSE, permissions |-> <<1>>]

GateRoleUpdateBody ==
  [name |-> Absent, description |-> Undefined, given |-> TRUE,
   permissions |-> <<>>]

GatePermissionBody ==
  [name |-> "pos:execute", description |-> Undefined, resource |-> "pos",
   action |-> "execute"]

GatePermissionUpdateBody ==
  [name |-> Absent, description |-> Undefined, resource |-> "files",
   action |-> Absent]

\* The requests on purchase orders and suppliers name rows the store does
\* not have, and a supplier name it has: a request the gate lets through is
\* answered by the handler's own 400 or 404.
GateSupplierBody == [name |-> "Tech Solutions Inc", contact_email |-> Absent]

GateSupplierUpdateBody == [name |-> Absent, contact_email |-> "sales@acme.com"]

GatePoBody ==
  [po_number |-> 1, supplier_id |-> MaxSupplier, status |-> "draft",
   total_amount |-> 0, items |-> 1]

NextRoleGate ==
  \/ \E body \in {AdminLogin, ManagerLogin, BasicLogin} : AuthLoginBegin(1, body)
  \/ AuthLoginCompare(1)
  \/ AuthRegisterBegin(1, BasicBody)
  \/ AuthRegisterInsert(1)
  \/ \E hdr \in RbacHeaders : PoStatusBegin(1, hdr, 1, "pending")
  \/ \E hdr \in RbacHeaders : PoCreateBegin(1, hdr, GatePoBody)
  \/ PoCreateSupplier(1)
  \/ \E hdr \in RbacHeaders : RoleGet(1, hdr, FirstCreatedRole)
  \/ \E hdr \in RbacHeaders : RoleCreateBegin(1, hdr, GateRoleBody)
  \/ RoleCreateValidate(1)
  \/ RoleCreateInsert(1)
  \/ RoleCreateAssign(1)
  \/ RoleCreateFetch(1)
  \/ \E hdr \in RbacHeaders :
       RoleUpdateBegin(1, hdr, FirstCreatedRole, GateRoleUpdateBody)
  \/ RoleUpdateRemove(1)
  \/ RoleUpdateFetch(1)
  \/ \E hdr \in RbacHeaders : RoleDeleteBegin(1, hdr, FirstCreatedRole)
  \/ RoleDeleteCount(1)
  \/ RoleDeleteRole(1)
  \/ RoleDeleteUnassign(1)
  \/ \E hdr \in RbacHeaders : PermissionCreateBegin(1, hdr, GatePermissionBody)
  \/ PermissionCreatePair(1)
  \/ PermissionCreateInsert(1)
  \/ \E hdr \in RbacHeaders :
       PermissionUpdateBegin(1, hdr, FirstCreatedPerm, GatePermissionUpdateBody)
  \/ PermissionUpdatePair(1)
  \/ PermissionUpdateWrite(1)
  \/ \E hdr \in RbacHeaders : PermissionDeleteBegin(1, hdr, FirstCreatedPerm)
  \/ PermissionDeleteCount(1)
  \/ PermissionDeletePermission(1)
  \/ \E hdr \in RbacHeaders : UserCreateBegin(1, hdr, ManagerBody)
  \/ UserCreateDivision(1)
  \/ UserCreateInsert(1)
  \/ \E hdr \in RbacHeaders : UserDeleteBegin(1, hdr, 2)
  \/ UserDeleteUser(1)
  \/ \E hdr \in RbacHeaders : SupplierCreateBegin(1, hdr, GateSupplierBody)
  \/ \E hdr \in RbacHeaders :
       SupplierUpdateBegin(1, hdr, MaxSupplier, GateSupplierUpdateBody)
  \/ \E hdr \in RbacHeaders : SupplierDeleteBegin(1, hdr, MaxSupplier)

SpecRoleGate == Init /\ [][NextRoleGate]_vars

\* ------------------------------------------------------------------------
\* The store setupPermissions leaves when it runs on the seeded store: the
\* permissions and roles whose names the seed did not write are added in the
\* order of the script's lists, and each added role gets the permissions of
\* its list.  A role the script finds is left as it is.
\* ------------------------------------------------------------------------
SeedPermissionNames == {SeedPermissionRows[i].name : i \in DOMAIN SeedPermissionRows}

SeedRoleNames == {SeedRoleRows[i].name : i \in DOMAIN SeedRoleRows}

SetupNewPermissionRows ==
  SelectSeq(SetupPermissionRows, LAMBDA row : ~(row.name \in SeedPermissionNames))

SetupNewRoleRows ==
  SelectSeq(SetupRoleRows, LAMBDA row : ~(row.name \in SeedRoleNames))

SetupPermissions ==
  [p \in PermIds |->
     IF p <= Len(SeedPermissionRows) THEN SeedPermissionRows[p]
     ELSE IF p - Len(SeedPermissionRows) <= Len(SetupNewPermissionRows)
     THEN SetupNewPermissionRows[p - Len(SeedPermissionRows)]
     ELSE NoRow]

SetupRoles ==
  [r \in RoleIds |->
     IF r <= Len(SeedRoleRows) THEN SeedRoleRows[r]
     ELSE IF r - Len(SeedRoleRows) <= Len(SetupNewRoleRows)
     THEN LET role == SetupNewRoleRows[r - Len(SeedRoleRows)]
          IN [name |-> role.name, description |-> role.description,
              is_system_role |-> role.is_system_role, deleted_at |-> FALSE]
     ELSE NoRow]

SetupRolePermissions ==
  [rp \in RoleIds \X PermIds |->
     IF rp[1] <= Len(SeedRoleRows) THEN SeedRolePermissions[rp]
     ELSE IF /\ rp[1] - Len(SeedRoleRows) <= Len(SetupNewRoleRows)
             /\ SetupPermissions[rp[2]] # NoRow
             /\ SetupPermissions[rp[2]].name
                  \in ListIds(SetupNewRoleRows[rp[1] - Len(SeedRoleRows)].permissions)
     THEN "live" ELSE "none"]

\* ------------------------------------------------------------------------
\* SpecLookup: getUserPermissions, hasPermission and requirePermission as
\* functions of the rows they read.  They are applied, for any user and
\* permission name, to the seeded store, to every store setupPermissions
\* passes through, and to stores drawn over the store it leaves.  A drawn
\* store has two registered users and a role Clerk as POST /roles inserts it
\* with the list [pos:write]; what is drawn are the rows the lookup reads and
\* no route inserts, the user_roles rows of the two users for Read Only and
\* Clerk, and the deleted_at of the Clerk role and of its role_permissions
\* row.
\* ------------------------------------------------------------------------
SecondBody ==
  [email |-> "second@hoganro.com", password |-> "second123", name |-> Absent,
   division_id |-> Absent]

\* The row POST /auth/register inserts.
RegisteredUser(id, body) ==
  [id |-> id,
   email |-> body.email,
   password_hash |-> hashPassword(body.password),
   name |-> IF body.name = Absent THEN "null" ELSE body.name,
   role |-> "basic",
   division_id |-> IF body.division_id = Absent THEN "null" ELSE body.division_id,
   spending_limit_cents |-> 0,
   is_active |-> "true",
   deleted_at |-> FALSE]

LookupUsers ==
  [u \in UserIds |->
     IF u = 2 THEN RegisteredUser(2, BasicBody)
     ELSE IF u = 3 THEN RegisteredUser(3, SecondBody)
     ELSE SeedUsers[u]]

\* The ids of the Read Only role, of the role a request creates next, and of
\* pos:write.
LookupReadOnly == CHOOSE r \in RoleIds : SetupRoles[r] # NoRow
                                         /\ SetupRoles[r].name = "Read Only"
LookupClerk == Len(SeedRoleRows) + Len(SetupNewRoleRows) + 1
LookupPosWrite == CHOOSE p \in PermIds : SetupPermissions[p] # NoRow
                                         /\ SetupPermissions[p].name = "pos:write"

LookupClerkRow(gone) ==
  [name |-> "Clerk", description |-> "null", is_system_role |-> FALSE,
   deleted_at |-> gone]

LookupDrawn == {2, 3} \X {LookupReadOnly, LookupClerk}

InitLookup ==
  \/ Init
  \/ /\ users = LookupUsers
     /\ suppliers = SeedSuppliers
     /\ purchase_orders = [p \in POIds |-> NoRow]
     /\ purchase_order_items = [p \in POIds |-> 0]
     /\ \E gone \in BOOLEAN :
          roles = [SetupRoles EXCEPT ![LookupClerk] = LookupClerkRow(gone)]
     /\ permissions = SetupPermissions
     /\ \E assignment \in {"live", "deleted"} :
          role_permissions =
            [SetupRolePermissions EXCEPT ![LookupClerk, LookupPosWrite] = assignment]
     /\ \E held \in [LookupDrawn -> {"none", "live", "deleted"}] :
          user_roles = [ur \in UserIds \X RoleIds |->
                          IF ur \in LookupDrawn THEN held[ur] ELSE SeedUserRoles[ur]]
     /\ tokens = {}
     /\ reqs = [q \in Reqs |-> Idle]

NextLookup ==
  \/ roles = SeedRoles /\ SetupPermissionsBegin(1)
  \/ SetupPermissionSelect(1)
  \/ SetupPermissionInsert(1)
  \/ SetupRoleSelect(1)
  \/ SetupRoleInsert(1)
  \/ SetupAssignSelect(1)
  \/ SetupAssignInsert(1)
  \/ SetupRoleStats(1)
  \/ \E userId \in UserIds, permission \in GatePermissions \cup {"users:read"} :
       RequirePermissionCall(MaxReq, userId, permission, FALSE)

SpecLookup == InitLookup /\ [][NextLookup]_vars

\* When setupPermissions has returned, the store is the one the drawn stores
\* are built on.
SetupStoreLeft ==
  (reqs[1].op = "setup_permissions" /\ reqs[1].pc = "done")
    => /\ reqs[1].reply = SetupReturned
       /\ roles = SetupRoles
       /\ permissions = SetupPermissions
       /\ role_permissions = SetupRolePermissions

ClerkBodies ==
  [name : {"Clerk"}, is_system_role : BOOLEAN, permissions : {<<>>, <<1>>}]

\* ------------------------------------------------------------------------
\* SpecRoleRace: roles created and deleted by the admin over concurrent
\* connections.
\* ------------------------------------------------------------------------
NextRoleRace ==
  \E q \in Reqs :
    \/ tokens = {} /\ AuthLoginBegin(q, AdminLogin)
    \/ AuthLoginCompare(q)
    \/ \E hdr \in AdminHeaders, body \in ClerkBodies : RoleCreateBegin(q, hdr, body)
    \/ RoleCreateValidate(q)
    \/ RoleCreateInsert(q)
    \/ RoleCreateAssign(q)
    \/ RoleCreateFetch(q)
    \/ \E hdr \in AdminHeaders, id \in RoleIds : RoleDeleteBegin(q, hdr, id)
    \/ RoleDeleteCount(q)
    \/ RoleDeleteRole(q)
    \/ RoleDeleteUnassign(q)

SpecRoleRace == Init /\ [][NextRoleRace]_vars

\* ------------------------------------------------------------------------
\* SpecRoleUpdate: the admin updates roles, one request at a time.  Role 3 is
\* Basic User, which holds permission 7 and not permission 1; no permission
\* and no role has the first id a request would be given.
\* ------------------------------------------------------------------------
RoleUpdateBodies ==
  [name : {Absent, "Purchaser", "Admin"}, description : {Undefined},
   given : BOOLEAN, permissions : {<<>>, <<1>>, <<7>>, <<7, 1>>, <<1, FirstCreatedPerm>>}]

NextRoleUpdate ==
  \/ AuthLoginBegin(1, AdminLogin)
  \/ AuthLoginCompare(1)
  \/ \E hdr \in AdminHeaders, id \in {3, FirstCreatedRole}, body \in RoleUpdateBodies :
       RoleUpdateBegin(1, hdr, id, body)
  \/ RoleUpdateName(1)
  \/ RoleUpdateRole(1)
  \/ RoleUpdateValidate(1)
  \/ RoleUpdateRemove(1)
  \/ RoleUpdateAssign(1)
  \/ RoleUpdateFetch(1)

SpecRoleUpdate == Init /\ [][NextRoleUpdate]_vars

\* ------------------------------------------------------------------------
\* SpecItemFailure: purchase orders created by the admin, one request at a
\* time, over a store that may reject an INSERT of a line item.
\* ------------------------------------------------------------------------
NextItemFailure ==
  \/ AuthLoginBegin(1, AdminLogin)
  \/ AuthLoginCompare(1)
  \/ \E hdr \in AdminHeaders, body \in PoBodies : PoCreateBegin(1, hdr, body)
  \/ PoCreateSupplier(1)
  \/ PoCreateInsert(1)
  \/ PoCreateItem(1)
  \/ PoCreateItemFails(1)

SpecItemFailure == Init /\ [][NextItemFailure]_vars

\* ------------------------------------------------------------------------
\* SpecPermissions: the admin's permission requests, one at a time.
\* Permission 7 is pos:read and permission 8 is pos:write.
\* ------------------------------------------------------------------------
PermissionCreateBodies ==
  [name : {"pos:read", "pos:execute"}, description : {Undefined},
   resource : {"pos"}, action : {"read", "execute"}]

PermissionUpdateBodies ==
  [name : {Absent, "pos:write", "pos:execute"}, description : {Undefined},
   resource : {Absent, "files"}, action : {Absent, "read", "execute"}]

NextPermissions ==
  \/ AuthLoginBegin(1, AdminLogin)
  \/ AuthLoginCompare(1)
  \/ \E hdr \in AdminHeaders, body \in PermissionCreateBodies :
       PermissionCreateBegin(1, hdr, body)
  \/ PermissionCreatePair(1)
  \/ PermissionCreateInsert(1)
  \/ \E hdr \in AdminHeaders, id \in {8, FirstCreatedPerm}, body \in PermissionUpdateBodies :
        PermissionUpdateBegin(1, hdr, id, body)
  \/ PermissionUpdateName(1)
  \/ PermissionUpdatePair(1)
  \/ PermissionUpdateWrite(1)
  \/ \E hdr \in AdminHeaders, id \in {8, FirstCreatedPerm} : PermissionDeleteBegin(1, hdr, id)
  \/ PermissionDeleteCount(1)
  \/ PermissionDeletePermission(1)

SpecPermissions == Init /\ [][NextPermissions]_vars

\* ========================================================================
\* Properties
\* ========================================================================

\* The transition table of the specification (section 4.2): 8 edges.
TransitionTable ==
  {<<"draft", "pending">>, <<"draft", "cancelled">>,
   <<"pending", "approved">>, <<"pending", "cancelled">>,
   <<"approved", "ordered">>, <<"approved", "cancelled">>,
   <<"ordered", "received">>, <<"ordered", "cancelled">>}

Done(q, op) == reqs[q].pc = "done" /\ reqs[q].op = op

\* The allowed-role set of each route that calls requireRole.  PUT /users/:id
\* calls requireAuth only; login and register call neither.
RouteRoles(op) ==
  CASE op = "po_status" -> PoStatusRoles
    [] op = "po_create" -> PoCreateRoles
    [] op = "role_get" -> RoleReadRoles
    [] op = "role_create" -> RoleWriteRoles
    [] op = "role_update" -> RoleWriteRoles
    [] op = "role_delete" -> RoleWriteRoles
    [] op = "permission_create" -> PermissionWriteRoles
    [] op = "permission_update" -> PermissionWriteRoles
    [] op = "permission_delete" -> PermissionWriteRoles
    [] op = "user_create" -> UserCreateRoles
    [] op = "user_delete" -> UserDeleteRoles
    [] op = "supplier_create" -> SupplierWriteRoles
    [] op = "supplier_update" -> SupplierWriteRoles
    [] op = "supplier_delete" -> SupplierWriteRoles
    [] OTHER -> {}

\* The routes that call requireRole, and the routes that call requireAuth.
RoleGatedOps ==
  {"po_status", "po_create", "role_get", "role_create", "role_update",
   "role_delete", "permission_create", "permission_update",
   "permission_delete", "user_create", "user_delete", "supplier_create",
   "supplier_update", "supplier_delete"}

ProtectedOps == RoleGatedOps \cup {"user_update"}

\* C1: a status-change request by an authorized caller on an existing order
\* with current status c and requested status r is answered Ok iff (c, r) is
\* one of the 8 edges; Ok stores r, every other pair is rejected with 400 and
\* leaves the stored status equal to c.
C1_TransitionTable ==
  \A q \in Reqs :
    (Done(q, "po_status") /\ reqs[q].current_status \in Statuses) =>
      LET r == reqs[q]
      IN /\ (r.reply.code = 200) <=> (<<r.current_status, r.status>> \in TransitionTable)
         /\ (r.reply.code = 200) => purchase_orders[r.id].status = r.status
         /\ (r.reply.code # 200) =>
              /\ r.reply.code = 400
              /\ purchase_orders[r.id].status = r.current_status

\* C1 witness: an order drafted, moved to pending, and now approved by an Ok
\* pending -> approved request.
C1_Witness ==
  /\ Done(1, "po_status")
  /\ reqs[1].current_status = "pending"
  /\ reqs[1].status = "approved"
  /\ reqs[1].reply.code = 200
  /\ purchase_orders[reqs[1].id].status = "approved"

\* C2: of two concurrent status-change requests that read the same current
\* status of the same order, the one whose write comes second (the loser of
\* the race) is rejected; it never gets Ok.
C2_RaceLoserRejected ==
  \A q \in Reqs :
    (Done(q, "po_status") /\ reqs[q].raced) => reqs[q].reply.code = 400

\* C3: every change of a persisted status goes along an edge of the
\* transition table, in every interleaving of status-change requests.
C3_LegalSuccessorsOnly ==
  [][\A p \in POIds :
       (/\ purchase_orders[p] # NoRow
        /\ purchase_orders'[p] # NoRow
        /\ purchase_orders'[p].status # purchase_orders[p].status)
       => <<purchase_orders[p].status, purchase_orders'[p].status>> \in TransitionTable]_vars

\* C4: no purchase order is persisted whose creator is not an admin and whose
\* total exceeds the creator's spending limit.
C4_SpendingLimitGate ==
  \A p \in POIds :
    purchase_orders[p] # NoRow =>
      canCreatePurchaseOrder(users[purchase_orders[p].created_by],
                             purchase_orders[p].total_amount)

\* C5: a request to a protected route without a verifiable Bearer token is
\* answered 401.
C5_UnauthenticatedIs401 ==
  \A q \in Reqs :
    (/\ reqs[q].pc = "done"
     /\ reqs[q].op \in ProtectedOps
     /\ extractUserFromRequest(reqs[q].hdr) = Null)
      => reqs[q].reply.code = 401

\* C6: a request by an authenticated principal whose role is not in the
\* route's allowed set is answered 403 and the reply names the required roles.
C6_ForbiddenNamesRoles ==
  \A q \in Reqs :
    (/\ reqs[q].pc = "done"
     /\ reqs[q].op \in RoleGatedOps
     /\ extractUserFromRequest(reqs[q].hdr) # Null
     /\ ~(extractUserFromRequest(reqs[q].hdr).role \in RouteRoles(reqs[q].op)))
      => /\ reqs[q].reply.code = 403
         /\ reqs[q].reply.roles = RouteRoles(reqs[q].op)

\* The endpoints whose set is {admin}: create, update and delete of a role,
\* create, update and delete of a permission, and delete of a user.
AdminOnlyOps ==
  {"role_create", "role_update", "role_delete", "permission_create",
   "permission_update", "permission_delete", "user_delete"}

\* The tables of the store.
Store == <<users, poTables, rbacTables>>

\* C7: a request on a role-gated endpoint with allowed-role set S, sent with
\* the token of a principal with role R, gets past the role gate iff R is in
\* S; a request that does not is answered with the handler's failure reply
\* and changes no table.  On the seven administrator-only endpoints the admin
\* gets past the gate and a manager, like a basic user, does not.
C7_ExactRoleMembership ==
  [][\A q \in Reqs :
       (/\ reqs'[q] # reqs[q]
        /\ reqs'[q].pc = "done"
        /\ reqs'[q].op \in RoleGatedOps
        /\ extractUserFromRequest(reqs'[q].hdr) # Null)
       => LET R == extractUserFromRequest(reqs'[q].hdr).role
              S == RouteRoles(reqs'[q].op)
          IN /\ reqs'[q].passed <=> R \in S
             /\ ~(R \in S) => /\ reqs'[q].reply.code = 500
                               /\ UNCHANGED Store
             /\ reqs'[q].op \in AdminOnlyOps
                  => (reqs'[q].passed <=> R = "admin")]_vars

\* The admin has created a role, a permission and a manager, and a basic user
\* has registered; the manager's request to update the permission did not get
\* past the gate: it is answered with the failure reply and the permission
\* is as the admin created it.
C7_Witness ==
  /\ Done(1, "permission_update")
  /\ extractUserFromRequest(reqs[1].hdr) # Null
  /\ extractUserFromRequest(reqs[1].hdr).role = "manager"
  /\ ~reqs[1].passed
  /\ reqs[1].reply = Reply(500, "Failed to update permission")
  /\ Live(permissions[FirstCreatedPerm])
  /\ permissions[FirstCreatedPerm].resource = GatePermissionBody.resource
  /\ Live(roles[FirstCreatedRole])
  /\ {t.role : t \in tokens} = {"admin", "manager", "basic"}

\* Names of seeded permissions, and a name no permission carries.
PermissionNames == {"users:read", "pos:read", "pos:write", "pos:manage"}

\* A chain user -> role -> permission in which both links and both rows are
\* not deleted.
LivePath(u, name) ==
  \E r \in RoleIds, p \in PermIds :
    /\ user_roles[u, r] = "live"
    /\ Live(roles[r])
    /\ role_permissions[r, p] = "live"
    /\ Live(permissions[p])
    /\ permissions[p].name = name

HeldRoles(u) == {r \in RoleIds : user_roles[u, r] = "live"}

\* The names a role grants: its live role_permissions rows to permissions
\* that are not deleted.
RolePermissions(r) ==
  {permissions[p].name :
     p \in {p \in PermIds : role_permissions[r, p] = "live" /\ Live(permissions[p])}}

\* The names of the roles a user holds.
HeldNames(u) == {roles[r].name : r \in HeldRoles(u)}

\* C9: for every user that is not deleted and whose held roles are not
\* deleted, the resolved permission set is the union of the permissions of
\* the held roles, hasPermission is false iff the name is in none of the held
\* roles, and the permission gate refuses exactly the names that are in none
\* of them; a user who holds only Read Only is refused pos:write and granted
\* pos:read.
C9_UnionOfHeldRoles ==
  \A u \in UserIds :
    (Live(users[u]) /\ \A r \in HeldRoles(u) : Live(roles[r]))
      => /\ getUserPermissions(u) = UNION {RolePermissions(r) : r \in HeldRoles(u)}
         /\ \A name \in PermissionNames :
              /\ ~hasPermission(u, name)
                   <=> \A r \in HeldRoles(u) : ~(name \in RolePermissions(r))
              /\ requirePermission(u, name).threw
                   <=> \A r \in HeldRoles(u) : ~(name \in RolePermissions(r))
         /\ HeldNames(u) = {"Read Only"}
              => /\ requirePermission(u, "pos:write").threw
                 /\ ~requirePermission(u, "pos:read").threw

\* User 2 holds Read Only and Clerk, neither deleted, and resolves more names
\* than either role grants: pos:read through Read Only only and pos:write
\* through Clerk only.  User 3 holds only Read Only; the gate was called for
\* user 3 and pos:write and threw, and it lets user 3 through for pos:read.
C9_Witness ==
  /\ HeldNames(2) = {"Read Only", "Clerk"}
  /\ \A r \in HeldRoles(2) : /\ Live(roles[r])
                              /\ RolePermissions(r) # getUserPermissions(2)
  /\ {"pos:read", "pos:write"} \subseteq getUserPermissions(2)
  /\ HeldNames(3) = {"Read Only"}
  /\ \A r \in HeldRoles(3) : Live(roles[r])
  /\ Done(MaxReq, "require_permission")
  /\ reqs[MaxReq].userId = 3
  /\ reqs[MaxReq].permission = "pos:write"
  /\ ~reqs[MaxReq].has
  /\ reqs[MaxReq].result.threw
  /\ hasPermission(3, "pos:read")
  /\ ~requirePermission(3, "pos:read").threw

\* C10: right after a successful create request the new order's persisted
\* status is draft, whatever the body said.
C10_CreatedAsDraft ==
  \A q \in Reqs :
    (Done(q, "po_create") /\ reqs[q].reply.code = 201)
      => purchase_orders[reqs[q].newPO].status = "draft"

\* C11: in every reachable state no two purchase orders that are not deleted
\* carry the same po_number.
C11_UniquePoNumber ==
  \A p1, p2 \in POIds :
    (p1 # p2 /\ Live(purchase_orders[p1]) /\ Live(purchase_orders[p2]))
      => purchase_orders[p1].po_number # purchase_orders[p2].po_number

\* The orders that are not deleted and carry the po_number n.
PoWithNumber(n) ==
  {p \in POIds : Live(purchase_orders[p]) /\ purchase_orders[p].po_number = n}

\* C12: a create request that has passed the gates and whose po_number is
\* that of an order that is not deleted is answered 400 'Purchase order number
\* already exists' in the step that reads the store, and that step changes no
\* order and no item; the finished request holds no new order.
C12_DuplicateNumberRejected ==
  [][\A q \in Reqs :
       (/\ Free(q)
        /\ reqs'[q] # reqs[q]
        /\ reqs'[q].op = "po_create"
        /\ reqs'[q].body # NoBody
        /\ PoWithNumber(reqs'[q].body.po_number) # {})
         => /\ reqs'[q].pc = "done"
            /\ reqs'[q].reply = Reply(400, "Purchase order number already exists")
            /\ reqs'[q].newPO = 0
            /\ UNCHANGED <<purchase_orders, purchase_order_items>>]_vars

C12_Witness ==
  /\ Done(1, "po_create")
  /\ reqs[1].reply = Reply(400, "Purchase order number already exists")
  /\ reqs[1].body # NoBody
  /\ PoWithNumber(reqs[1].body.po_number) = {1}
  /\ purchase_orders[2] = NoRow
  /\ purchase_order_items[1] = 1

\* The step in which the handler of op reads the store for a request on
\* connection q that has passed the gates.
Reads(q, op) ==
  /\ Free(q)
  /\ reqs'[q] # reqs[q]
  /\ reqs'[q].op = op
  /\ reqs'[q].pc # "idle"
  /\ IF reqs'[q].pc = "done" THEN reqs'[q].passed ELSE reqs'[q].user # Null

TerminalStatuses == {"received", "cancelled"}

\* C13: with requests served one at a time, a status-change request on an
\* order whose status is received or cancelled is answered 400 for every
\* requested status, and no step changes the status of such an order.
C13_TerminalClosure ==
  [][/\ \A q \in Reqs :
          (/\ Reads(q, "po_status")
           /\ Live(purchase_orders[reqs'[q].id])
           /\ purchase_orders[reqs'[q].id].status \in TerminalStatuses)
            => /\ reqs'[q].pc = "done"
               /\ reqs'[q].reply.code = 400
     /\ \A p \in POIds :
          (purchase_orders[p] # NoRow /\ purchase_orders[p].status \in TerminalStatuses)
            => purchase_orders'[p] = purchase_orders[p]]_vars

C13_Witness ==
  /\ Done(1, "po_status")
  /\ reqs[1].current_status = "received"
  /\ reqs[1].status = "cancelled"
  /\ reqs[1].reply.code = 400
  /\ purchase_orders[reqs[1].id].status = "received"

\* C14: a status-change request asking for the status the order already has
\* is answered 400, for each of the six statuses, and the step writes nothing:
\* the row keeps its status, updated_at and updated_by.
C14_NoNoOpTransition ==
  [][\A q \in Reqs :
       (/\ Reads(q, "po_status")
        /\ Live(purchase_orders[reqs'[q].id])
        /\ purchase_orders[reqs'[q].id].status = reqs'[q].status)
         => /\ reqs'[q].pc = "done"
            /\ reqs'[q].reply.code = 400
            /\ UNCHANGED purchase_orders]_vars

\* The admin asks for ordered on an order the manager has set to ordered.
C14_Witness ==
  /\ Done(1, "po_status")
  /\ reqs[1].passed
  /\ reqs[1].current_status = "ordered"
  /\ reqs[1].status = "ordered"
  /\ reqs[1].reply.code = 400
  /\ purchase_orders[reqs[1].id].status = "ordered"
  /\ purchase_orders[reqs[1].id].updated_by = 2
  /\ users[2].role = "manager"
  /\ extractUserFromRequest(reqs[1].hdr).id = 1

\* C15: the step that completes an accepted status change sets status,
\* updated_at and updated_by (the id of the requesting principal) of the one
\* order it names; every other field of that order, every other order, the
\* line items and every other table are unchanged.
C15_StatusChangeFrame ==
  [][\A q \in Reqs :
       (/\ reqs[q].op = "po_status"
        /\ reqs[q].pc = "update"
        /\ reqs'[q].pc = "done"
        /\ reqs'[q].reply.code = 200)
         => /\ purchase_orders[reqs[q].id] # NoRow
            /\ purchase_orders' =
                 [purchase_orders EXCEPT ![reqs[q].id] =
                    [@ EXCEPT !.status = reqs[q].status,
                              !.updated_at = "later",
                              !.updated_by = extractUserFromRequest(reqs[q].hdr).id]]
            /\ UNCHANGED <<purchase_order_items, suppliers, users, rbacTables, tokens>>]_vars

C15_Witness ==
  /\ Done(1, "po_status")
  /\ reqs[1].reply.code = 200
  /\ extractUserFromRequest(reqs[1].hdr).id = 1
  /\ purchase_orders[reqs[1].id].status = reqs[1].status
  /\ purchase_orders[reqs[1].id].updated_at = "later"
  /\ purchase_orders[reqs[1].id].updated_by = 1
  /\ purchase_orders[reqs[1].id].created_by = 2
  /\ purchase_order_items[reqs[1].id] = 1

\* C16: canCreatePurchaseOrder is true for an admin whatever the amount and
\* the limit; for every other role it is true iff the amount is at most the
\* limit, so an amount equal to the limit is allowed.
C16_SpendingLimit ==
  \A q \in Reqs :
    reqs[q].op = "can_create"
      => LET r == reqs[q]
         IN /\ r.user.role = "admin" => r.result
            /\ r.user.role # "admin"
                 => (r.result <=> r.totalCents <= r.user.spending_limit_cents)
            /\ r.totalCents = r.user.spending_limit_cents => r.result

C16_Witness ==
  /\ reqs[1].op = "can_create"
  /\ reqs[1].user.role = "basic"
  /\ reqs[1].user.spending_limit_cents = 3
  /\ reqs[1].totalCents = 3
  /\ reqs[1].result

\* C17: in every reachable state, also with role deletions interleaved with
\* other requests, a role that is soft-deleted is not a system role and no
\* live user-role assignment references it.
C17_DeletedRoleUnassigned ==
  \A r \in RoleIds :
    (roles[r] # NoRow /\ roles[r].deleted_at)
      => /\ ~roles[r].is_system_role
         /\ \A u \in UserIds : user_roles[u, r] # "live"

\* A role a request created is soft-deleted while a second deletion of it is
\* in flight; the admin still holds Admin, and the seeded system roles are
\* not deleted.
C17_Witness ==
  /\ roles[FirstCreatedRole] # NoRow
  /\ roles[FirstCreatedRole].deleted_at
  /\ ~roles[FirstCreatedRole].is_system_role
  /\ reqs[2].op = "role_delete"
  /\ reqs[2].pc = "delete"
  /\ reqs[2].id = FirstCreatedRole
  /\ user_roles[1, 1] = "live"
  /\ \A r \in 1..Len(SeedRoleRows) : roles[r].is_system_role /\ ~roles[r].deleted_at

LivePermissions(table) == {p \in PermIds : Live(table[p])}

UniquePermissions(table) ==
  \A p1, p2 \in LivePermissions(table) :
    p1 # p2 => /\ table[p1].name # table[p2].name
               /\ <<table[p1].resource, table[p1].action>>
                    # <<table[p2].resource, table[p2].action>>

\* The reply of a permission create or update that has just completed.
Replied(q, ops) ==
  /\ reqs'[q] # reqs[q]
  /\ reqs'[q].pc = "done"
  /\ reqs'[q].op \in ops

\* C18: with permission create, update and delete requests served one at a
\* time, no two non-deleted permissions share a name or a (resource, action)
\* pair; a create or update that is refused changes no permission, and one
\* that is accepted leaves the table without a shared name or pair.
C18_UniquePermissions ==
  /\ UniquePermissions(permissions)
  /\ [][/\ UniquePermissions(permissions')
        /\ \A q \in Reqs :
             Replied(q, {"permission_create", "permission_update"})
             => IF reqs'[q].reply.code \in {200, 201}
                THEN /\ Live(permissions'[reqs'[q].id])
                     /\ reqs'[q].op = "permission_create"
                        => permissions[reqs'[q].id] = NoRow
                ELSE permissions' = permissions]_vars

\* An update that would give pos:write the pair of pos:read has been refused,
\* and a created permission has been renamed.
C18_Witness ==
  /\ Done(1, "permission_update")
  /\ reqs[1].reply.code = 400
  /\ reqs[1].body.action = "read"
  /\ reqs[1].id = 8
  /\ permissions[8].name = "pos:write"
  /\ permissions[7].action = "read"
  /\ Live(permissions[FirstCreatedPerm])
  /\ permissions[FirstCreatedPerm].resource = "files"

Referenced(p) == \E r \in RoleIds : role_permissions[r, p] = "live"

\* C19: a permission that a non-deleted role-permission assignment references
\* keeps its name, resource and action in every step; only its description
\* may change.
C19_ReferencedPermissionImmutable ==
  [][\A p \in PermIds :
       Referenced(p) /\ permissions[p] # NoRow
       => /\ permissions'[p] # NoRow
          /\ permissions'[p].name = permissions[p].name
          /\ permissions'[p].resource = permissions[p].resource
          /\ permissions'[p].action = permissions[p].action]_vars

\* The tables of a store in which role r never existed.
RolesWithout(r) == [roles EXCEPT ![r] = NoRow]

UserRolesWithout(r) ==
  [ur \in UserIds \X RoleIds |-> IF ur[2] = r THEN "none" ELSE user_roles[ur]]

\* C20 (roles): for a soft-deleted role, GET /:id, DELETE /:id and the
\* creation of a role with its name are answered as they would be if the
\* role had never existed.
C20_DeletedLikeAbsent ==
  \A r \in RoleIds :
    roles[r] # NoRow /\ roles[r].deleted_at
    => \A hdr \in RbacHeaders :
         /\ RoleGetReply(roles, hdr, r) = RoleGetReply(RolesWithout(r), hdr, r)
         /\ RoleDeleteReply(roles, user_roles, hdr, r)
              = RoleDeleteReply(RolesWithout(r), UserRolesWithout(r), hdr, r)
         /\ \A body \in RoleBodies :
              body.name = roles[r].name
              => RoleCreateReply(roles, permissions, hdr, body)
                   = RoleCreateReply(RolesWithout(r), permissions, hdr, body)

\* C21: when the permission lookup fails, the gate hands the failure to its
\* caller: hasPermission does not answer false and requirePermission does not
\* throw Forbidden.
C21_LookupFailurePropagates ==
  \A q \in Reqs :
    (reqs[q].op = "require_permission" /\ reqs[q].queryFails)
      => /\ reqs[q].has # FALSE
         /\ ~(/\ reqs[q].result.threw
              /\ reqs[q].result.message = "Forbidden: Missing required permission")

\* C22: every target status the transition table accepts is admitted by the
\* store, so a status change that passes the transition check is answered
\* 200 and the order carries the requested status.
C22_AcceptedIsPersisted ==
  \A q \in Reqs :
    (/\ Done(q, "po_status")
     /\ reqs[q].passed
     /\ reqs[q].current_status \in Statuses
     /\ reqs[q].status \in validTransitions[reqs[q].current_status])
      => /\ reqs[q].status \in StoreStatuses
         /\ reqs[q].reply.code = 200
         /\ purchase_orders[reqs[q].id].status = reqs[q].status

\* C23: the principal obtained from a token issued to a user record carries
\* the record's id, role, division and spending limit.
C23_TokenRoundTrip ==
  \A q \in Reqs :
    reqs[q].op = "token"
      => /\ reqs[q].principal # Null
         /\ reqs[q].principal.id = reqs[q].user.id
         /\ reqs[q].principal.role = reqs[q].user.role
         /\ reqs[q].principal.division_id = reqs[q].user.division_id
         /\ reqs[q].principal.spending_limit_cents = reqs[q].user.spending_limit_cents

\* The longest chain of transitions that starts at status s, followed for at
\* most fuel steps.
RECURSIVE LongestChain(_, _)
LongestChain(s, fuel) ==
  IF fuel = 0 \/ validTransitions[s] = {} THEN 0
  ELSE LET lens == {LongestChain(t, fuel - 1) : t \in validTransitions[s]}
       IN 1 + CHOOSE n \in lens : \A m \in lens : m <= n

\* The number of status changes an order in status s can still undergo; a
\* cycle would make it reach the number of statuses.
Remaining(s) == LongestChain(s, Cardinality(Statuses))

\* A status-change request has just been answered 200.
Accepted(q) ==
  /\ reqs[q].op = "po_status"
  /\ reqs[q].pc = "update"
  /\ reqs'[q].pc = "done"
  /\ reqs'[q].reply.code = 200

\* C24: every non-terminal status has exactly one successor other than
\* cancelled, plus cancelled; the transition graph has no cycle and no chain
\* longer than 4; and every accepted status change leaves the order fewer
\* changes to go than it had, so that no order is changed more than 4 times
\* and no order is given a status it has carried before.
C24_LinearLifecycle ==
  /\ \A s \in Statuses :
       validTransitions[s] # {}
       => /\ "cancelled" \in validTransitions[s]
          /\ Cardinality(validTransitions[s] \ {"cancelled"}) = 1
  /\ \A s \in Statuses : Remaining(s) <= 4
  /\ [][\A q \in Reqs :
          Accepted(q)
          => Remaining(purchase_orders'[reqs[q].id].status)
               < Remaining(purchase_orders[reqs[q].id].status)]_vars

\* C25: with requests that carry only tokens of users who are not
\* administrators, no step makes a user an admin who was not one, and no step
\* raises a user's spending limit.
C25_NoSelfPromotion ==
  [][\A u \in UserIds :
       (users[u] # NoRow /\ users'[u] # NoRow)
       => /\ users'[u].role = "admin" => users[u].role = "admin"
          /\ users'[u].spending_limit_cents <= users[u].spending_limit_cents]_vars

\* The user a Bearer token was issued to is soft-deleted or inactive.
StaleToken(hdr) ==
  /\ hdr.scheme = "Bearer"
  /\ hdr.token # Null
  /\ \/ ~Live(users[hdr.token.id])
     \/ users[hdr.token.id].is_active # "true"

\* C26: requests are served one at a time, so the request a connection holds
\* is the last one served; when the user its token was issued to is deleted
\* or inactive by now, it was refused at the authentication gate.
C26_StaleTokenRefused ==
  \A q \in Reqs :
    (reqs[q].pc = "done" /\ reqs[q].op # "user_delete" /\ StaleToken(reqs[q].hdr))
      => ~reqs[q].passed

\* C27: no non-deleted purchase order whose status is pending, approved or
\* ordered references a supplier that is soft-deleted.
C27_ActiveOrderHasLiveSupplier ==
  \A p \in POIds :
    (Live(purchase_orders[p]) /\ purchase_orders[p].status \in ActiveStatuses)
      => Live(suppliers[purchase_orders[p].supplier_id])

\* C28: a role update that is answered with an error leaves the role's name,
\* its description and its set of non-deleted assignments as the request
\* found them.
C28_RoleUpdateAllOrNothing ==
  [][\A q \in Reqs :
       (/\ reqs[q].op = "role_update"
        /\ reqs[q].pc # "done"
        /\ reqs'[q].pc = "done"
        /\ reqs'[q].reply.code >= 400)
       => /\ roles'[reqs[q].id].name = reqs[q].existing.name
          /\ roles'[reqs[q].id].description = reqs[q].existing.description
          /\ {p \in PermIds : role_permissions'[reqs[q].id, p] = "live"}
               = reqs[q].existing.permissions]_vars

\* C29: a create request that is answered with an error after its order row
\* was inserted leaves neither the order row nor any of its line items.
C29_CreateAllOrNothing ==
  [][\A q \in Reqs :
       (/\ reqs[q].op = "po_create"
        /\ reqs[q].pc = "items"
        /\ reqs'[q].pc = "done"
        /\ reqs'[q].reply.code >= 400)
       => /\ purchase_orders'[reqs[q].newPO] = NoRow
          /\ purchase_order_items'[reqs[q].newPO] = 0]_vars

\* C30: an accepted role update changes only the fields its body has: an
\* omitted name, description or permissions list keeps the value the request
\* found.
C30_OmittedFieldsKept ==
  [][\A q \in Reqs :
       (/\ reqs[q].op = "role_update"
        /\ reqs[q].pc # "done"
        /\ reqs'[q].pc = "done"
        /\ reqs'[q].reply.code = 200)
       => /\ reqs[q].body.name = Absent
               => roles'[reqs[q].id].name = reqs[q].existing.name
          /\ reqs[q].body.description = Undefined
               => roles'[reqs[q].id].description = reqs[q].existing.description
          /\ ~reqs[q].body.given
               => {p \in PermIds : role_permissions'[reqs[q].id, p] = "live"}
                    = reqs[q].existing.permissions]_vars

====
